---- MODULE Spec2Model ----
(***************************************************************************)
(* Verification model of the Fort Worth residential real-estate tool:      *)
(* the zoning polygon store and containment resolver (cmd/zoning.go), the  *)
(* undervaluation detector (cmd/main.go) and the distress scorer           *)
(* (cmd/distressed.go), with the record source they are fed from           *)
(* (internal/database/database.go); the flat-file loader (readFile and     *)
(* loadDatasets), the two lead stores (cmd/leads.go and the kanban board), *)
(* the state-plane projection (cmd/stateplane.go) and the interactive      *)
(* lists (interactiveSelect, interactiveLargeLand).                        *)
(*                                                                         *)
(* Numbers.  The program computes in float64.  The model computes in exact *)
(* integers and rationals and keeps the IEEE special values (NaN, +Inf,    *)
(* -Inf) wherever the code can produce or receive them.  All finite inputs *)
(* are small integers, for which the float64 operations used here are      *)
(* exact or round to a value that compares the same way.  The projection   *)
(* alone computes in decimal fixed point (six places), which follows the   *)
(* float64 result to within tens of feet.                                  *)
(***************************************************************************)
EXTENDS Integers, Sequences, FiniteSets, TLC

VARIABLES
    layerFiles,      \* what is on disk for each zoning layer (input, never written)
    zoningFeatures,  \* cmd/zoning.go: var zoningFeatures []zoningFeature
    initErr,         \* initZoning: the error returned ("" = nil / not returned yet)
    zoningPc,        \* main: "init" while initZoning runs, "ready" after it returned
    lookup,          \* the last findZoningAttributes call: arguments and results
    propertyData,    \* the record source: the rows of PROPERTYDATA_R_2025
    uvCall,          \* the undervaluation analysis in progress: arguments, results
    propertyData2024, \* the prior-year rows: PROPERTYDATA_2024
    dsCall,          \* the distress filter in progress: arguments, results
    rfFile,          \* readFile: the file at path and runtime.NumCPU()
    rfPc,            \* readFile: where the calling goroutine is
    rfScan,          \* readFile: the lines the scanner has returned so far
    rfCh,            \* readFile: linesCh, the lines queued
    rfClosed,        \* readFile: linesCh is closed
    rfWorkers,       \* readFile: where each worker goroutine is, and its line
    rfCalls,         \* readFile: for each line, the workers that called fn with it
    rfErr,           \* readFile: the error returned
    ldPass,          \* loadDatasets: the file being read, or how it ended
    ldFiles,         \* loadDatasets: the three data files (input, never written)
    primaryByAcct,   \* loadDatasets: primaryByAcct
    primary2024ByAcct, \* loadDatasets: primary2024ByAcct
    ldMu,            \* loadDatasets: the holder of muPrimary and of mu2024 (0: free)
    ldCb,            \* loadDatasets: where each worker is in its callback
    ldMerged,        \* loadDatasets: the supplemental lines whose merge was stored
    ldOut,           \* loadDatasets: what it returned
    leadsKind,       \* which lead store the build has: "csv" (cmd/leads.go) or "board"
    leadsStore,      \* the leads file: data/leads.csv or the kanban board Leads.md
    leadsDetails,    \* the names of the lead detail files in the Leads directory
    leadCall,        \* the last saveLead call: argument, result, list before it
    spParams,        \* cmd/stateplane.go: the package variables n, F and rho0
    spCall,          \* the last wgs84ToTxNC call: arguments and results
    uiList,          \* the interactive list on screen: which one, and its length
    page,            \* interactiveLargeLand: page
    selected,        \* interactiveSelect and interactiveLargeLand: selected
    keyBuf,          \* the bytes the bufio reader of the list holds unread
    uiPc,            \* where the list is: "idle", "loop", "returned" or "panic"
    uiShown          \* the index of the entry Enter rendered last, or -1

zvars == <<layerFiles, zoningFeatures, initErr, zoningPc, lookup>>

uvars == <<propertyData, uvCall>>

dvars == <<propertyData2024, dsCall>>

rvars == <<rfFile, rfPc, rfScan, rfCh, rfClosed, rfWorkers, rfCalls, rfErr>>

lvars == <<ldPass, ldFiles, primaryByAcct, primary2024ByAcct, ldMu, ldCb,
           ldMerged, ldOut>>

\* the parts added to the model after the record source
kvars == <<leadsKind, leadsStore, leadsDetails, leadCall>>

pvars == <<spParams, spCall>>

ivars == <<uiList, page, selected, keyBuf, uiPc, uiShown>>

xvars == <<lvars, kvars, pvars, ivars>>

\* what the steps of loadDatasets, other than those of readFile, leave alone
notLoad == <<zvars, uvars, dvars, kvars, pvars, ivars>>

\* what saveLead leaves alone
notLeads == <<zvars, uvars, dvars, rvars, lvars, pvars, ivars>>

\* what the projection leaves alone
notProj == <<zvars, uvars, dvars, rvars, lvars, kvars, ivars>>

\* what the interactive lists leave alone
notUi == <<zvars, uvars, dvars, rvars, lvars, kvars, pvars>>

vars == <<zvars, uvars, dvars, rvars, xvars>>

(***************************************************************************)
(* Bounds of the model.                                                    *)
(***************************************************************************)
MaxCoord == 4            \* polygon vertices lie in 0..MaxCoord on both axes
MaxShapes == 1           \* shapes per zoning layer file
MaxParcels == 4          \* rows of the record source in the undervaluation runs
MaxFill == 8             \* look-alike parcels that fill a subdivision in the distress runs
MaxLines == 3            \* data lines of the file readFile reads
MaxWorkers == 2          \* runtime.NumCPU() in the readFile runs
QueueCap == 2            \* capacity of linesCh in the readFile runs (4096 in the code)

(***************************************************************************)
(* float64 values.  A query coordinate is finite, NaN, +Inf or -Inf.       *)
(* Polygon vertices and cached bounds are finite (integers of the model).  *)
(***************************************************************************)
Fin(n) == [k |-> "fin", v |-> n]
NaN == [k |-> "nan", v |-> 0]
PInf == [k |-> "pinf", v |-> 0]
NInf == [k |-> "ninf", v |-> 0]
IsFinite(a) == a.k = "fin"

\* Go's a < b for a float64 a and a finite b: false when a is NaN.
FltLess(a, b) ==
    CASE a.k = "fin" -> a.v < b
      [] a.k = "ninf" -> TRUE
      [] OTHER -> FALSE

\* Go's a > b for a float64 a and a finite b: false when a is NaN.
FltGreater(a, b) ==
    CASE a.k = "fin" -> a.v > b
      [] a.k = "pinf" -> TRUE
      [] OTHER -> FALSE

\* math.MaxFloat64, the seed of the running minimum (and, negated, of the
\* running maximum): larger than every coordinate of the model.
MaxFloat64 == MaxCoord + 1000

(***************************************************************************)
(* Strings.  A string is a tuple of one-character strings; the conversions *)
(* of package strings and strconv are computed character by character.     *)
(***************************************************************************)
LowerCase ==
    <<"a", "b", "c", "d", "e", "f", "g", "h", "i", "j", "k", "l", "m",
      "n", "o", "p", "q", "r", "s", "t", "u", "v", "w", "x", "y", "z">>
UpperCase ==
    <<"A", "B", "C", "D", "E", "F", "G", "H", "I", "J", "K", "L", "M",
      "N", "O", "P", "Q", "R", "S", "T", "U", "V", "W", "X", "Y", "Z">>

UpperOf ==
    [c \in {LowerCase[i] : i \in 1..Len(LowerCase)} |->
        UpperCase[CHOOSE i \in 1..Len(LowerCase) : LowerCase[i] = c]]

ToUpperChar(c) == IF c \in DOMAIN UpperOf THEN UpperOf[c] ELSE c

\* strings.ToUpper
ToUpper(s) == [i \in 1..Len(s) |-> ToUpperChar(s[i])]

\* strings.TrimSpace
RECURSIVE TrimLeft(_)
TrimLeft(s) == IF s # <<>> /\ Head(s) = " " THEN TrimLeft(Tail(s)) ELSE s
RECURSIVE TrimRight(_)
TrimRight(s) ==
    IF s # <<>> /\ s[Len(s)] = " " THEN TrimRight(SubSeq(s, 1, Len(s) - 1)) ELSE s
TrimSpace(s) == TrimRight(TrimLeft(s))

NotComma(c) == c # ","
\* strings.ReplaceAll(s, ",", "")
RemoveCommas(s) == SelectSeq(s, NotComma)

DigitChars == <<"0", "1", "2", "3", "4", "5", "6", "7", "8", "9">>
ValueOfDigit ==
    [c \in {DigitChars[i] : i \in 1..10} |-> (CHOOSE i \in 1..10 : DigitChars[i] = c) - 1]
IsDigit(c) == c \in DOMAIN ValueOfDigit
DigitValue(c) == ValueOfDigit[c]

RECURSIVE DecimalValue(_, _)
DecimalValue(s, acc) ==
    IF s = <<>> THEN acc ELSE DecimalValue(Tail(s), 10 * acc + DigitValue(Head(s)))

\* strconv.ParseFloat(s, 64) and strconv.Atoi(s) on the strings of the model:
\* an optional sign and decimal digits give the number, anything else is an
\* error (for the fields whose strings hold no fraction or exponent)
ParseNumber(s) ==
    LET neg == s # <<>> /\ Head(s) = "-"
        body == IF neg THEN Tail(s) ELSE s
    IN IF body # <<>> /\ \A i \in 1..Len(body) : IsDigit(body[i])
       THEN [v |-> IF neg THEN -DecimalValue(body, 0) ELSE DecimalValue(body, 0),
             ok |-> TRUE]
       ELSE [v |-> 0, ok |-> FALSE]

RECURSIVE Pow10(_)
Pow10(n) == IF n = 0 THEN 1 ELSE 10 * Pow10(n - 1)

\* the index of the first "." of s, or Len(s) + 1
RECURSIVE DotAt(_, _)
DotAt(s, i) == IF i > Len(s) \/ s[i] = "." THEN i ELSE DotAt(s, i + 1)

\* strconv.ParseFloat(s, 64) on the strings of the model: an optional minus
\* sign, decimal digits and at most one decimal point with at least one
\* digit around it; num/den is the decimal value written (the model has no
\* strings with an exponent, and compares a decimal only with integers)
ParseFloat(s) ==
    LET neg == s # <<>> /\ Head(s) = "-"
        body == IF neg THEN Tail(s) ELSE s
        dot == DotAt(body, 1)
        whole == SubSeq(body, 1, dot - 1)
        frac == SubSeq(body, dot + 1, Len(body))
        digits == whole \o frac
    IN IF digits # <<>> /\ \A i \in 1..Len(digits) : IsDigit(digits[i])
       THEN [num |-> IF neg THEN -DecimalValue(digits, 0) ELSE DecimalValue(digits, 0),
             den |-> Pow10(Len(frac)), ok |-> TRUE]
       ELSE [num |-> 0, den |-> 1, ok |-> FALSE]

\* the decimal text of a number of the model
RECURSIVE DigitsOf(_)
DigitsOf(n) ==
    IF n < 10 THEN <<DigitChars[n + 1]>>
    ELSE DigitsOf(n \div 10) \o <<DigitChars[(n % 10) + 1]>>
Text(n) == IF n < 0 THEN <<"-">> \o DigitsOf(-n) ELSE DigitsOf(n)

(***************************************************************************)
(* Exact rationals num/den, den > 0, kept in lowest terms.                 *)
(***************************************************************************)
Abs(n) == IF n < 0 THEN -n ELSE n
RECURSIVE GCD(_, _)
GCD(a, b) == IF b = 0 THEN a ELSE GCD(b, a % b)

Rat(n, d) ==
    LET g == GCD(Abs(n), Abs(d))
        sgn == IF d < 0 THEN -1 ELSE 1
    IN [num |-> sgn * (n \div g), den |-> sgn * (d \div g)]
RatInt(n) == [num |-> n, den |-> 1]
RatAdd(a, b) == Rat(a.num * b.den + b.num * a.den, a.den * b.den)
RatSub(a, b) == Rat(a.num * b.den - b.num * a.den, a.den * b.den)
RatMul(a, b) == Rat(a.num * b.num, a.den * b.den)
RatDivInt(a, n) == Rat(a.num, a.den * n)
RatLess(a, b) == a.num * b.den < b.num * a.den
RatLeq(a, b) == a.num * b.den <= b.num * a.den

(***************************************************************************)
(* Zoning layers on disk.  A layer file either cannot be opened or holds a *)
(* sequence of shapes; a shape is a polygon (Parts: 0-based offsets of the *)
(* rings in the flat Points list) or some other geometry.                  *)
(***************************************************************************)
Pt(x, y) == [X |-> x, Y |-> y]

\* A closed axis-aligned square ring, first vertex repeated at the end.
SquareRing(x0, y0, x1, y1) ==
    <<Pt(x0, y0), Pt(x0, y1), Pt(x1, y1), Pt(x1, y0), Pt(x0, y0)>>

Polygon(parts, points, code) ==
    [isPolygon |-> TRUE, Parts |-> parts, Points |-> points,
     Attrs |-> [ZONING |-> code]]

\* one ring: the whole grid
ShapeOuter == Polygon(<<0>>, SquareRing(0, 0, MaxCoord, MaxCoord), "A-5")
\* two nested rings: the inner one would be a hole in a donut polygon
ShapeNested ==
    Polygon(<<0, 5>>,
            SquareRing(0, 0, MaxCoord, MaxCoord) \o SquareRing(1, 1, 3, 3), "PD")
\* one ring, a triangle: half of its bounding box lies outside it
ShapeTriangle ==
    Polygon(<<0>>, <<Pt(0, 0), Pt(MaxCoord, 0), Pt(0, MaxCoord), Pt(0, 0)>>, "B")
\* two disjoint rings: the middle of the bounding box is outside both
ShapeIslands ==
    Polygon(<<0, 5>>,
            SquareRing(0, 0, 1, 1) \o SquareRing(MaxCoord - 1, 2, MaxCoord, 3),
            "MU-1")
\* a polygon record without parts or points
ShapeEmpty == Polygon(<<>>, <<>>, "NONE")
\* a geometry that is not a polygon
ShapeLine ==
    [isPolygon |-> FALSE, Parts |-> <<0>>, Points |-> <<Pt(0, 0), Pt(2, 2)>>,
     Attrs |-> [ZONING |-> "LINE"]]

Shapes ==
    {ShapeOuter, ShapeNested, ShapeTriangle, ShapeIslands,
     ShapeEmpty, ShapeLine}

SeqsUpTo(S, n) == UNION {[1..m -> S] : m \in 0..n}

LayerFiles ==
    {[ok |-> FALSE, shapes |-> <<>>]}
        \cup {[ok |-> TRUE, shapes |-> ss] : ss \in SeqsUpTo(Shapes, MaxShapes)}

\* initZoning: the layers, in the order they are loaded
LayerPaths ==
    <<"data/ADM_ZONING/ADM_ZONING.shp",
      "data/ADM_ZONING_OVERLAY_DISTRICTS/ADM_ZONING_OVERLAY_DISTRICTS.shp">>

(***************************************************************************)
(* loadZoningShapefile                                                     *)
(***************************************************************************)
\* the ring of part partIdx (1-based here): points start..end-1, stored as
\* <<lat, lon>> = <<pt.Y, pt.X>>
RingOfPart(poly, partIdx) ==
    LET numParts == Len(poly.Parts)
        start == poly.Parts[partIdx]
        end == IF partIdx + 1 <= numParts THEN poly.Parts[partIdx + 1]
               ELSE Len(poly.Points)
    IN [j \in 1..(end - start) |->
            <<poly.Points[start + j].Y, poly.Points[start + j].X>>]

\* the four updates of the running bounding box for one point
TrackPoint(box, pt) ==
    [minLat |-> IF pt.Y < box.minLat THEN pt.Y ELSE box.minLat,
     maxLat |-> IF pt.Y > box.maxLat THEN pt.Y ELSE box.maxLat,
     minLon |-> IF pt.X < box.minLon THEN pt.X ELSE box.minLon,
     maxLon |-> IF pt.X > box.maxLon THEN pt.X ELSE box.maxLon]

\* a variant that declares the running bounds inside the loop over the parts,
\* so that they are reset for every ring
RECURSIVE TrackBoxPerPart(_, _, _, _)
TrackBoxPerPart(poly, partIdx, i, box) ==
    IF partIdx > Len(poly.Parts) THEN box
    ELSE LET end == IF partIdx + 1 <= Len(poly.Parts) THEN poly.Parts[partIdx + 1]
                    ELSE Len(poly.Points)
         IN IF i < end
            THEN TrackBoxPerPart(poly, partIdx, i + 1,
                                 TrackPoint(box, poly.Points[i + 1]))
            ELSE IF partIdx + 1 <= Len(poly.Parts)
                 THEN TrackBoxPerPart(poly, partIdx + 1, poly.Parts[partIdx + 1],
                        [minLat |-> MaxFloat64, minLon |-> MaxFloat64,
                         maxLat |-> -MaxFloat64, maxLon |-> -MaxFloat64])
                 ELSE box

\* the nested loops over the parts and over the points of each part, as far
\* as they update the bounding box: i is the 0-based index of the next point
RECURSIVE TrackBox(_, _, _, _)
TrackBox(poly, partIdx, i, box) ==
    IF partIdx > Len(poly.Parts) THEN box
    ELSE LET end == IF partIdx + 1 <= Len(poly.Parts) THEN poly.Parts[partIdx + 1]
                    ELSE Len(poly.Points)
         IN IF i < end
            THEN TrackBox(poly, partIdx, i + 1, TrackPoint(box, poly.Points[i + 1]))
            ELSE IF partIdx + 1 <= Len(poly.Parts)
                 THEN TrackBox(poly, partIdx + 1, poly.Parts[partIdx + 1], box)
                 ELSE box

\* one polygon shape converted to a zoningFeature
FeatureOf(poly) ==
    LET seed == [minLat |-> MaxFloat64, minLon |-> MaxFloat64,
                 maxLat |-> -MaxFloat64, maxLon |-> -MaxFloat64]
        box == IF Len(poly.Parts) = 0 THEN seed
               ELSE TrackBox(poly, 1, poly.Parts[1], seed)
    IN [Parts |-> [p \in 1..Len(poly.Parts) |-> RingOfPart(poly, p)],
        Attrs |-> poly.Attrs,
        MinLat |-> box.minLat, MinLon |-> box.minLon,
        MaxLat |-> box.maxLat, MaxLon |-> box.maxLon]

RECURSIVE FeaturesFrom(_, _)
FeaturesFrom(shapes, k) ==
    IF k > Len(shapes) THEN <<>>
    ELSE IF ~shapes[k].isPolygon THEN FeaturesFrom(shapes, k + 1)
    ELSE <<FeatureOf(shapes[k])>> \o FeaturesFrom(shapes, k + 1)

\* (features, err) for the layer file at the path
loadZoningShapefile(file) ==
    IF ~file.ok THEN [feats |-> <<>>, err |-> TRUE]
    ELSE [feats |-> FeaturesFrom(file.shapes, 1), err |-> FALSE]

(***************************************************************************)
(* initZoning: the range loop over the layers.  The result is the value of *)
(* the global zoningFeatures and the error returned.                       *)
(***************************************************************************)
RECURSIVE initZoningFrom(_, _, _)
initZoningFrom(files, l, feats) ==
    IF l > Len(files) THEN [features |-> feats, err |-> ""]
    ELSE LET r == loadZoningShapefile(files[l])
         IN IF r.err THEN [features |-> feats, err |-> LayerPaths[l]]
            ELSE initZoningFrom(files, l + 1, feats \o r.feats)

initZoning(files, feats) == initZoningFrom(files, 1, feats)

(***************************************************************************)
(* pointInPolygon and findZoningAttributes                                 *)
(***************************************************************************)
\* lon < (xj-xi)*(lat-yi)/(yj-yi)+xi, the right-hand side being the rational
\* num/den with den = yj-yi # 0
LonLeftOfCrossing(lon, num, den) ==
    CASE lon.k = "fin" -> IF den > 0 THEN lon.v * den < num ELSE lon.v * den > num
      [] lon.k = "ninf" -> TRUE
      [] OTHER -> FALSE

\* intersect := ((yi > lat) != (yj > lat)) && (lon < (xj-xi)*(lat-yi)/(yj-yi)+xi)
\* (&& evaluates its right side only when the left side is true, and the
\* left side is true only for a finite lat between yi and yj)
Intersect(lat, lon, yi, xi, yj, xj) ==
    /\ FltLess(lat, yi) # FltLess(lat, yj)
    /\ LonLeftOfCrossing(lon, (xj - xi) * (lat.v - yi) + xi * (yj - yi), yj - yi)

RECURSIVE pointInPolygonLoop(_, _, _, _, _, _)
pointInPolygonLoop(lat, lon, ring, i, j, inside) ==
    IF i > Len(ring) THEN inside
    ELSE pointInPolygonLoop(lat, lon, ring, i + 1, i,
            IF Intersect(lat, lon, ring[i][1], ring[i][2], ring[j][1], ring[j][2])
            THEN ~inside ELSE inside)

pointInPolygon(lat, lon, ring) ==
    IF Len(ring) = 0 THEN FALSE
    ELSE pointInPolygonLoop(lat, lon, ring, 1, Len(ring), FALSE)

\* a variant that also rejects the points on the edge of the box
BBoxRejectOnEdge(lat, lon, z) ==
    \/ ~FltGreater(lat, z.MinLat)
    \/ ~FltLess(lat, z.MaxLat)
    \/ ~FltGreater(lon, z.MinLon)
    \/ ~FltLess(lon, z.MaxLon)

\* the quick bbox reject of findZoningAttributes
BBoxReject(lat, lon, z) ==
    \/ FltLess(lat, z.MinLat)
    \/ FltGreater(lat, z.MaxLat)
    \/ FltLess(lon, z.MinLon)
    \/ FltGreater(lon, z.MaxLon)

\* a variant that subtracts rings as holes: inside an odd number of rings
RECURSIVE AnyRingHoles(_, _, _, _)
AnyRingHoles(lat, lon, parts, r) ==
    IF r > Len(parts) THEN FALSE
    ELSE pointInPolygon(lat, lon, parts[r]) # AnyRingHoles(lat, lon, parts, r + 1)

\* a variant that takes a bounding-box hit for containment
AnyRingBBoxOnly(lat, lon, parts, r) == Len(parts) > 0

\* the loop over z.Parts: true as soon as one ring contains the point
RECURSIVE AnyRing(_, _, _, _)
AnyRing(lat, lon, parts, r) ==
    IF r > Len(parts) THEN FALSE
    ELSE IF pointInPolygon(lat, lon, parts[r]) THEN TRUE
    ELSE AnyRing(lat, lon, parts, r + 1)

NilAttrs == <<>>

\* a variant that keeps scanning and returns the last containing polygon
RECURSIVE findZoningLast(_, _, _, _)
findZoningLast(feats, lat, lon, k) ==
    IF k > Len(feats) THEN [attrs |-> NilAttrs, found |-> FALSE]
    ELSE LET rest == findZoningLast(feats, lat, lon, k + 1)
         IN IF rest.found THEN rest
            ELSE IF ~BBoxReject(lat, lon, feats[k])
                    /\ AnyRing(lat, lon, feats[k].Parts, 1)
                 THEN [attrs |-> feats[k].Attrs, found |-> TRUE]
                 ELSE rest

RECURSIVE findZoningFrom(_, _, _, _)
findZoningFrom(feats, lat, lon, k) ==
    IF k > Len(feats) THEN [attrs |-> NilAttrs, found |-> FALSE]
    ELSE IF BBoxReject(lat, lon, feats[k]) THEN findZoningFrom(feats, lat, lon, k + 1)
    ELSE IF AnyRing(lat, lon, feats[k].Parts, 1)
         THEN [attrs |-> feats[k].Attrs, found |-> TRUE]
    ELSE findZoningFrom(feats, lat, lon, k + 1)

findZoningAttributes(lat, lon) == findZoningFrom(zoningFeatures, lat, lon, 1)

(***************************************************************************)
(* The zoning part of the program as a state machine.                      *)
(***************************************************************************)
NoLookup == [called |-> FALSE, lat |-> Fin(0), lon |-> Fin(0),
             attrs |-> NilAttrs, found |-> FALSE]

\* projected query coordinates: the grid, one step beyond it on each side,
\* and the non-finite values wgs84ToTxNC yields for degenerate input
QueryCoords == {Fin(n) : n \in -1..(MaxCoord + 1)} \cup {NaN, PInf, NInf}

\* loadDatasets is not running
LoadIdle ==
    /\ ldPass = "idle"
    /\ ldFiles = <<>>
    /\ primaryByAcct = <<>>
    /\ primary2024ByAcct = <<>>
    /\ ldMu = [primary |-> 0, y2024 |-> 0]
    /\ ldCb = <<>>
    /\ ldMerged = {}
    /\ ldOut = [pc |-> "idle"]

\* no lead is being saved
LeadsIdle ==
    /\ leadsKind = "none"
    /\ leadsStore = [exists |-> FALSE, pieces |-> <<>>]
    /\ leadsDetails = {}
    /\ leadCall = [n |-> 0]

\* no coordinate is being projected
ProjIdle ==
    /\ spParams = [set |-> FALSE]
    /\ spCall = [pc |-> "idle"]

\* no interactive list is on screen
UiIdle ==
    /\ uiList = [kind |-> "none", len |-> 0]
    /\ page = 0
    /\ selected = 0
    /\ keyBuf = <<>>
    /\ uiPc = "idle"
    /\ uiShown = -1

\* the parts of the program other than part are at rest
ExtrasIdle(part) ==
    /\ IF part # "load" THEN LoadIdle ELSE TRUE
    /\ IF part # "leads" THEN LeadsIdle ELSE TRUE
    /\ IF part # "proj" THEN ProjIdle ELSE TRUE
    /\ IF part # "ui" THEN UiIdle ELSE TRUE

\* readFile is not running
ReadFileIdle ==
    /\ rfFile = [opens |-> FALSE, lines |-> <<>>, errAt |-> 0, cpus |-> 1]
    /\ rfPc = "idle"
    /\ rfScan = 0
    /\ rfCh = <<>>
    /\ rfClosed = FALSE
    /\ rfWorkers = <<>>
    /\ rfCalls = <<>>
    /\ rfErr = ""

ZoningInit ==
    /\ layerFiles \in [1..Len(LayerPaths) -> LayerFiles]
    /\ zoningFeatures = <<>>
    /\ initErr = ""
    /\ zoningPc = "init"
    /\ lookup = NoLookup
    /\ propertyData = <<>>
    /\ uvCall = [pc |-> "idle"]
    /\ propertyData2024 = <<>>
    /\ dsCall = [pc |-> "idle"]
    /\ ReadFileIdle
    /\ ExtrasIdle("none")

\* main: if err := initZoning(); err != nil { warning } - and main goes on
InitZoning ==
    /\ zoningPc = "init"
    /\ LET r == initZoning(layerFiles, zoningFeatures)
       IN /\ zoningFeatures' = r.features
          /\ initErr' = r.err
    /\ zoningPc' = "ready"
    /\ UNCHANGED <<layerFiles, lookup, uvars, dvars, rvars, xvars>>

\* renderPropertyDiff: a containment query after start-up, for the projected
\* coordinates of the parcel shown
FindZoning ==
    /\ zoningPc = "ready"
    /\ ~lookup.called
    /\ \E lat \in QueryCoords, lon \in QueryCoords :
          LET r == findZoningAttributes(lat, lon)
          IN lookup' = [called |-> TRUE, lat |-> lat, lon |-> lon,
                        attrs |-> r.attrs, found |-> r.found]
    /\ UNCHANGED <<layerFiles, zoningFeatures, initErr, zoningPc, uvars, dvars, rvars, xvars>>

\* renderPropertyDiff returns: the zoning line is printed, the result dropped
Rendered ==
    /\ lookup.called
    /\ lookup' = NoLookup
    /\ UNCHANGED <<layerFiles, zoningFeatures, initErr, zoningPc, uvars, dvars, rvars, xvars>>

ZoningNext == InitZoning \/ FindZoning \/ Rendered

SpecZoning == ZoningInit /\ [][ZoningNext]_vars

(***************************************************************************)
(* Properties of the polygon store and the containment resolver.           *)
(***************************************************************************)
\* the edges of a ring that the ray from the point crosses; edge i runs from
\* vertex i-1 (the last vertex for i = 1) to vertex i
CrossedEdges(lat, lon, ring) ==
    {i \in 1..Len(ring) :
        LET j == IF i = 1 THEN Len(ring) ELSE i - 1
        IN Intersect(lat, lon, ring[i][1], ring[i][2], ring[j][1], ring[j][2])}

\* the even-odd rule
EvenOddInside(lat, lon, ring) == Cardinality(CrossedEdges(lat, lon, ring)) % 2 = 1

RingsAround(lat, lon, z) ==
    {r \in 1..Len(z.Parts) : EvenOddInside(lat, lon, z.Parts[r])}

\* the polygons of the set that contain the point, by load order index
Containing(lat, lon) ==
    {k \in 1..Len(zoningFeatures) : RingsAround(lat, lon, zoningFeatures[k]) # {}}

FiniteLookup == lookup.called /\ IsFinite(lookup.lat) /\ IsFinite(lookup.lon)

\* C1: for a finite query point findZoningAttributes returns the attributes
\* of the lowest-index polygon (in load order) that contains the point and
\* true, or (nil, false) when no polygon contains it, the empty set included.
C1_FirstContainingPolygonWins ==
    FiniteLookup =>
        LET hits == Containing(lookup.lat, lookup.lon)
        IN IF hits = {}
           THEN ~lookup.found /\ lookup.attrs = NilAttrs
           ELSE /\ lookup.found
                /\ \E k \in hits :
                      /\ \A h \in hits : k <= h
                      /\ lookup.attrs = zoningFeatures[k].Attrs

\* C1 witness: two polygons with different attributes contain the point and
\* the lookup has answered
C1_Witness ==
    /\ FiniteLookup
    /\ lookup.found
    /\ \E k, h \in Containing(lookup.lat, lookup.lon) :
          k < h /\ zoningFeatures[k].Attrs # zoningFeatures[h].Attrs

\* an axis-aligned square ring as stored: corners <<y0, x0>> and <<y1, x1>>
IsSquareRing(ring) ==
    /\ Len(ring) = 5
    /\ ring[1][1] < ring[3][1]
    /\ ring[1][2] < ring[3][2]
    /\ ring = <<ring[1], <<ring[3][1], ring[1][2]>>, ring[3],
                <<ring[1][1], ring[3][2]>>, ring[1]>>

\* C2: a polygon contains a finite query point iff the even-odd test succeeds
\* for at least one of its rings taken alone (rings are never subtracted as
\* holes); for a square ring the test is true strictly inside the square and
\* false strictly outside it, and a point outside every ring is not found
\* even when it lies in a bounding box.
C2_AnyRingEvenOdd ==
    FiniteLookup =>
        /\ lookup.found <=> Containing(lookup.lat, lookup.lon) # {}
        /\ \A k \in 1..Len(zoningFeatures) :
              LET z == zoningFeatures[k]
              IN /\ (~BBoxReject(lookup.lat, lookup.lon, z)
                        /\ AnyRing(lookup.lat, lookup.lon, z.Parts, 1))
                     <=> RingsAround(lookup.lat, lookup.lon, z) # {}
                 /\ \A r \in 1..Len(z.Parts) :
                      LET ring == z.Parts[r]
                          y == lookup.lat.v
                          x == lookup.lon.v
                      IN IsSquareRing(ring) =>
                          /\ (ring[1][1] < y /\ y < ring[3][1]
                              /\ ring[1][2] < x /\ x < ring[3][2])
                                => pointInPolygon(lookup.lat, lookup.lon, ring)
                          /\ (y < ring[1][1] \/ y > ring[3][1]
                              \/ x < ring[1][2] \/ x > ring[3][2])
                                => ~pointInPolygon(lookup.lat, lookup.lon, ring)

\* C2 witness: the point lies inside two rings of the polygon that is returned
C2_Witness ==
    /\ FiniteLookup
    /\ lookup.found
    /\ \E k \in Containing(lookup.lat, lookup.lon) :
          /\ \A h \in Containing(lookup.lat, lookup.lon) : k <= h
          /\ Cardinality(RingsAround(lookup.lat, lookup.lon, zoningFeatures[k])) = 2

\* the cached bounding box equals the extrema of the rings
BBoxExact(z) ==
    LET vs == UNION {{z.Parts[r][i] : i \in 1..Len(z.Parts[r])} : r \in 1..Len(z.Parts)}
    IN vs # {} =>
        /\ \A v \in vs : /\ z.MinLat <= v[1] /\ v[1] <= z.MaxLat
                         /\ z.MinLon <= v[2] /\ v[2] <= z.MaxLon
        /\ \E v \in vs : v[1] = z.MinLat
        /\ \E v \in vs : v[1] = z.MaxLat
        /\ \E v \in vs : v[2] = z.MinLon
        /\ \E v \in vs : v[2] = z.MaxLon

\* C3: every loaded polygon with at least one vertex has all its vertices
\* inside its cached bounding box and each of the four bounds attained by a
\* vertex; once initZoning has returned no step changes rings or bounds.
C3_BoundingBoxIsExtrema ==
    /\ [](\A k \in 1..Len(zoningFeatures) : BBoxExact(zoningFeatures[k]))
    /\ [][zoningPc = "ready" => zoningFeatures' = zoningFeatures]_vars

\* C3 witness: a polygon of two rings is loaded and lookups have been made
C3_Witness ==
    /\ zoningPc = "ready"
    /\ lookup.called
    /\ \E k \in 1..Len(zoningFeatures) :
          /\ Len(zoningFeatures[k].Parts) = 2
          /\ zoningFeatures[k].MinLat < zoningFeatures[k].Parts[2][1][1]

\* C4 (as claimed): when a layer fails to load, initZoning leaves no polygon
\* of any layer in the set and every later containment query answers not
\* found.
C4_FailedLoadLeavesNoPolygons ==
    (zoningPc = "ready" /\ initErr # "") =>
        /\ zoningFeatures = <<>>
        /\ lookup.called => ~lookup.found

\* C5: for a query point with a non-finite northing or easting (NaN, +Inf,
\* -Inf) findZoningAttributes returns (nil, false), whatever the polygon set.
C5_NonFiniteNotFound ==
    (lookup.called /\ (~IsFinite(lookup.lat) \/ ~IsFinite(lookup.lon))) =>
        ~lookup.found /\ lookup.attrs = NilAttrs

\* C5 witness: a NaN coordinate that no bounding-box comparison rejects
C5_Witness ==
    /\ lookup.called
    /\ lookup.lat = NaN
    /\ \E k \in 1..Len(zoningFeatures) :
          ~BBoxReject(lookup.lat, lookup.lon, zoningFeatures[k])
    /\ ~lookup.found


(***************************************************************************)
(* The undervaluation detector (cmd/main.go) and its record source.        *)
(*                                                                         *)
(* A parcel carries the fields the analysis reads, as strings.  All        *)
(* parcels of the model lie on one meridian and a latitude is written in   *)
(* units of 1e-7 mile of arc along it, so that the haversine distance of   *)
(* two parcels is the absolute difference of their latitudes.              *)
(***************************************************************************)
Radius == 1000000        \* the 0.1 mile of the neighbour test, in 1e-7 mile
MinComps == 3            \* the least number of neighbour values

Parcel(sub, lat, lon, imp) ==
    [Subdivision |-> sub, Latitude |-> lat, Longitude |-> lon,
     ImprovementValue |-> imp]

OAK == <<"O", "A", "K">>
ELM == <<"E", "L", "M">>

ParcelKinds ==
    {Parcel(OAK, Text(0), Text(0), Text(0)),
     \* exactly 0.1 mile and 0.1000001 mile north of the parcel above
     Parcel(OAK, Text(Radius), Text(0), Text(2)),
     Parcel(OAK, Text(Radius + 1), Text(0), Text(2)),
     \* another subdivision, same place
     Parcel(ELM, Text(0), Text(0), Text(2)),
     \* the name in another case and padded, the value with a comma
     Parcel(<<"o", "a", "k", " ">>, <<" ">> \o Text(0), Text(0), <<"0", ",", "0">>),
     \* unusable fields
     Parcel(OAK, Text(0), Text(0), <<"n", "/", "a">>),
     Parcel(OAK, <<>>, Text(0), Text(2))}

\* what the user types after "sub="
SubInputs == {<<"o", "a", "k">>, ELM}

parseLatLon(latStr, lonStr) ==
    LET lat == ParseNumber(TrimSpace(latStr))
        lon == ParseNumber(TrimSpace(lonStr))
    IN [lat |-> lat.v, lon |-> lon.v, ok |-> lat.ok /\ lon.ok]

parseDollar(str) ==
    LET t == TrimSpace(RemoveCommas(str))
    IN IF t = <<>> THEN [v |-> 0, ok |-> FALSE] ELSE ParseNumber(t)

\* parseDollar on a string that may hold a decimal fraction: the value as a
\* rational
parseDollarQ(str) ==
    LET t == TrimSpace(RemoveCommas(str))
        f == ParseFloat(t)
    IN IF t = <<>> \/ ~f.ok THEN [q |-> RatInt(0), ok |-> FALSE]
       ELSE [q |-> Rat(f.num, f.den), ok |-> TRUE]

\* great-circle distance in 1e-7 mile, for two points of one meridian
distanceMiles(lat1, lon1, lat2, lon2) == Abs(lat2 - lat1)

RECURSIVE SumVals(_, _)
SumVals(vals, i) ==
    IF i > Len(vals) THEN RatInt(0) ELSE RatAdd(RatInt(vals[i]), SumVals(vals, i + 1))

RECURSIVE SumSquares(_, _, _)
SumSquares(vals, mean, i) ==
    IF i > Len(vals) THEN RatInt(0)
    ELSE LET d == RatSub(RatInt(vals[i]), mean)
         IN RatAdd(RatMul(d, d), SumSquares(vals, mean, i + 1))

\* a variant with the sample standard deviation (divisor n - 1)
meanStdSample(vals) ==
    LET mean == RatDivInt(SumVals(vals, 1), Len(vals))
    IN [mean |-> mean,
        std |-> [sqrtOf |-> RatDivInt(SumSquares(vals, mean, 1), Len(vals) - 1)]]

\* mean and std of a non-empty list; std is the square root of the rational
\* kept in sqrtOf
meanStd(vals) ==
    LET mean == RatDivInt(SumVals(vals, 1), Len(vals))
    IN [mean |-> mean,
        std |-> [sqrtOf |-> RatDivInt(SumSquares(vals, mean, 1), Len(vals))]]

\* val < mean-std
BelowOneSigma(val, mean, std) ==
    LET d == RatSub(mean, RatInt(val))
    IN d.num > 0 /\ RatLess(std.sqrtOf, RatMul(d, d))

\* a variant of the neighbour test with < in place of <=
WithinRadiusStrict(lat1, lon1, lat2, lon2) ==
    distanceMiles(lat1, lon1, lat2, lon2) < Radius

\* distanceMiles(lat1, lon1, lat2, lon2) <= 0.1
WithinRadius(lat1, lon1, lat2, lon2) ==
    distanceMiles(lat1, lon1, lat2, lon2) <= Radius

\* a variant of the inner loop that leaves out the rows at the candidate's
\* own place, the candidate itself among them
RECURSIVE neighborValsApart(_, _, _, _)
neighborValsApart(lat1, lon1, universe, k) ==
    IF k > Len(universe) THEN <<>>
    ELSE LET q == universe[k]
             rest == neighborValsApart(lat1, lon1, universe, k + 1)
         IN IF q.Latitude = <<>> \/ q.Longitude = <<>> \/ q.ImprovementValue = <<>>
            THEN rest
            ELSE LET ll == parseLatLon(q.Latitude, q.Longitude)
                 IN IF ~ll.ok THEN rest
                    ELSE IF WithinRadius(lat1, lon1, ll.lat, ll.lon)
                            /\ distanceMiles(lat1, lon1, ll.lat, ll.lon) > 0
                            /\ parseDollar(q.ImprovementValue).ok
                         THEN <<parseDollar(q.ImprovementValue).v>> \o rest
                         ELSE rest

\* the inner loop over the universe: the neighbour values of one candidate
RECURSIVE neighborVals(_, _, _, _)
neighborVals(lat1, lon1, universe, k) ==
    IF k > Len(universe) THEN <<>>
    ELSE LET q == universe[k]
             rest == neighborVals(lat1, lon1, universe, k + 1)
         IN IF q.Latitude = <<>> \/ q.Longitude = <<>> \/ q.ImprovementValue = <<>>
            THEN rest
            ELSE LET ll == parseLatLon(q.Latitude, q.Longitude)
                 IN IF ~ll.ok THEN rest
                    ELSE IF WithinRadius(lat1, lon1, ll.lat, ll.lon)
                            /\ parseDollar(q.ImprovementValue).ok
                         THEN <<parseDollar(q.ImprovementValue).v>> \o rest
                         ELSE rest

\* the body of the loop over the candidates: the results one candidate adds
CandidateResult(p, universe) ==
    LET ll == parseLatLon(p.Latitude, p.Longitude)
        val == parseDollar(p.ImprovementValue)
    IN IF ~ll.ok \/ ~val.ok THEN <<>>
       ELSE LET nv == neighborVals(ll.lat, ll.lon, universe, 1)
            IN IF Len(nv) < MinComps THEN <<>>
               ELSE LET ms == meanStd(nv)
                    IN IF BelowOneSigma(val.v, ms.mean, ms.std)
                       THEN <<[Property |-> p, NeighborCount |-> Len(nv),
                               Mean |-> ms.mean, StdDev |-> ms.std]>>
                       ELSE <<>>

RECURSIVE undervaluedFrom(_, _, _)
undervaluedFrom(candidates, universe, k) ==
    IF k > Len(candidates) THEN <<>>
    ELSE CandidateResult(candidates[k], universe)
            \o undervaluedFrom(candidates, universe, k + 1)

undervaluedFromCandidates(candidates, universe) ==
    undervaluedFrom(candidates, universe, 1)

RECURSIVE candidatesFrom(_, _, _)
candidatesFrom(sub, props, k) ==
    IF k > Len(props) THEN <<>>
    ELSE LET p == props[k]
         IN IF ToUpper(TrimSpace(p.Subdivision)) = sub /\ p.Latitude # <<>>
               /\ p.Longitude # <<>> /\ p.ImprovementValue # <<>>
            THEN <<p>> \o candidatesFrom(sub, props, k + 1)
            ELSE candidatesFrom(sub, props, k + 1)

\* the candidates findUndervaluedInSubdivision collects
candidatesIn(sub, props) == candidatesFrom(ToUpper(TrimSpace(sub)), props, 1)

findUndervaluedInSubdivision(sub, props) ==
    undervaluedFromCandidates(candidatesIn(sub, props), props)

\* SELECT ... FROM PROPERTYDATA_R_2025 WHERE UPPER(SubdivisionName) = UPPER(:1)
RECURSIVE rowsOf(_, _, _)
rowsOf(rows, subdivision, k) ==
    IF k > Len(rows) THEN <<>>
    ELSE IF ToUpper(rows[k].Subdivision) = ToUpper(subdivision)
         THEN <<rows[k]>> \o rowsOf(rows, subdivision, k + 1)
         ELSE rowsOf(rows, subdivision, k + 1)

QuerySubdivisionProperties(subdivision) == rowsOf(propertyData, subdivision, 1)

\* the neighbour values the loop has gathered for each candidate (none for a
\* candidate it skips before the inner loop)
neighborLog(candidates, universe) ==
    [k \in 1..Len(candidates) |->
        LET ll == parseLatLon(candidates[k].Latitude, candidates[k].Longitude)
        IN IF ~ll.ok \/ ~parseDollar(candidates[k].ImprovementValue).ok
           THEN [skipped |-> TRUE, vals |-> <<>>]
           ELSE [skipped |-> FALSE,
                 vals |-> neighborVals(ll.lat, ll.lon, universe, 1)]]

UvIdle == [pc |-> "idle"]

UnderInit ==
    /\ layerFiles = <<>>
    /\ zoningFeatures = <<>>
    /\ initErr = ""
    /\ zoningPc = "ready"
    /\ lookup = NoLookup
    /\ propertyData \in SeqsUpTo(ParcelKinds, MaxParcels)
    /\ uvCall = UvIdle
    /\ propertyData2024 = <<>>
    /\ dsCall = [pc |-> "idle"]
    /\ ReadFileIdle
    /\ ExtrasIdle("none")

\* handleSubdivisionQuery, choice 1: the rows of the subdivision are queried
\* and analysed; a failed query ends the handler with a message
RelativeImprovement ==
    /\ uvCall.pc = "idle"
    /\ \E sub \in SubInputs, queryFails \in BOOLEAN :
          LET properties == IF queryFails THEN <<>>
                            ELSE QuerySubdivisionProperties(sub)
          IN uvCall' =
               [pc |-> "shown", path |-> "database", sub |-> sub,
                err |-> queryFails,
                candidates |-> IF queryFails THEN <<>>
                               ELSE candidatesIn(sub, properties),
                universe |-> properties,
                comps |-> IF queryFails THEN <<>>
                          ELSE neighborLog(candidatesIn(sub, properties), properties),
                results |-> IF queryFails THEN <<>>
                            ELSE findUndervaluedInSubdivision(sub, properties)]
    /\ UNCHANGED <<zvars, propertyData, dvars, rvars, xvars>>

\* the flat-file variant of the program: the analysis is given every parcel
\* loaded, in the order the map is iterated
RelativeImprovementFlatFile ==
    /\ uvCall.pc = "idle"
    /\ \E sub \in SubInputs :
          uvCall' =
               [pc |-> "shown", path |-> "flatfile", sub |-> sub, err |-> FALSE,
                candidates |-> candidatesIn(sub, propertyData),
                universe |-> propertyData,
                comps |-> neighborLog(candidatesIn(sub, propertyData), propertyData),
                results |-> findUndervaluedInSubdivision(sub, propertyData)]
    /\ UNCHANGED <<zvars, propertyData, dvars, rvars, xvars>>

\* the result list has been shown and the handler returns
UvReturn ==
    /\ uvCall.pc = "shown"
    /\ uvCall' = UvIdle
    /\ UNCHANGED <<zvars, propertyData, dvars, rvars, xvars>>

UnderNext == RelativeImprovement \/ RelativeImprovementFlatFile \/ UvReturn

SpecUnder == UnderInit /\ [][UnderNext]_vars

(***************************************************************************)
(* Properties of the undervaluation detector.                              *)
(***************************************************************************)
\* a parcel with parseable coordinates and improvement value
Usable(q) ==
    /\ q.Latitude # <<>> /\ q.Longitude # <<>> /\ q.ImprovementValue # <<>>
    /\ parseLatLon(q.Latitude, q.Longitude).ok
    /\ parseDollar(q.ImprovementValue).ok

LatOf(q) == parseLatLon(q.Latitude, q.Longitude).lat
ValOf(q) == parseDollar(q.ImprovementValue).v

\* the rows of a universe at most 0.1 mile from a parcel
CompsOf(p, universe) ==
    {j \in 1..Len(universe) :
        Usable(universe[j]) /\ Abs(LatOf(universe[j]) - LatOf(p)) <= Radius}

\* the total of the values of the rows S of a universe
RECURSIVE TotalOf(_, _)
TotalOf(S, universe) ==
    IF S = {} THEN 0
    ELSE LET j == CHOOSE j \in S : TRUE
         IN ValOf(universe[j]) + TotalOf(S \ {j}, universe)

\* the sum of (n*v - T)^2 over the values v of the rows S
RECURSIVE DevOf(_, _, _, _)
DevOf(S, universe, n, T) ==
    IF S = {} THEN 0
    ELSE LET j == CHOOSE j \in S : TRUE
         IN (n * ValOf(universe[j]) - T) * (n * ValOf(universe[j]) - T)
               + DevOf(S \ {j}, universe, n, T)

\* the statistics of the neighbours S of p, in integers: their number n,
\* their total T, deficit = n*(M - V) and spread = n^2 * sum (v - M)^2
StatsOf(p, universe) ==
    LET S == CompsOf(p, universe)
        n == Cardinality(S)
        T == TotalOf(S, universe)
    IN [n |-> n, total |-> T, deficit |-> T - n * ValOf(p),
        spread |-> DevOf(S, universe, n, T)]

\* at least 3 neighbours and V < M - S, i.e. M - V > 0 and S^2 < (M - V)^2
Undervalued(st) ==
    /\ st.n >= 3
    /\ st.deficit > 0
    /\ st.spread < st.n * st.deficit * st.deficit

\* the record carries the neighbour count, the mean T/n and the population
\* standard deviation sqrt(spread/n^3)
CarriesStats(r, p, st) ==
    /\ r.Property = p
    /\ r.NeighborCount = st.n
    /\ r.Mean.num * st.n = st.total * r.Mean.den
    /\ r.StdDev.sqrtOf.num * st.n * st.n * st.n = st.spread * r.StdDev.sqrtOf.den

C8_NeighboursFromWholeRecordSource ==
    (uvCall.pc = "shown" /\ uvCall.path = "database" /\ ~uvCall.err) =>
        /\ \A k \in 1..Len(uvCall.candidates) :
              ToUpper(TrimSpace(uvCall.candidates[k].Subdivision))
                 = ToUpper(TrimSpace(uvCall.sub))
        /\ \A k \in 1..Len(uvCall.candidates) :
              ~uvCall.comps[k].skipped =>
                 Len(uvCall.comps[k].vals)
                    = Cardinality(CompsOf(uvCall.candidates[k], propertyData))

(***************************************************************************)
(* The distress scorer (cmd/distressed.go).                                *)
(***************************************************************************)
MinGroup == 10           \* stat.count < 10: unreliable comps
AgeGapMin == 20          \* ageGap >= 20
DeprGapMin == 15         \* deprGap >= 15
DeprPhysical == 40       \* deprVal >= 40
LongHoldDays == 3650     \* 10*365*24*time.Hour, in days
PriceGate == Rat(70, 100)     \* priceRatio > 0.70
ShockFactor == Rat(115, 100)  \* total > 1.15*prevVal

\* float64 results of a division: a rational, NaN, +Inf or -Inf
FinRat(q) == [k |-> "fin", q |-> q]
NaNRat == [k |-> "nan", q |-> RatInt(0)]
PInfRat == [k |-> "pinf", q |-> RatInt(0)]
NInfRat == [k |-> "ninf", q |-> RatInt(0)]

\* a / b in float64 for finite a and b
FltDiv(a, b) ==
    IF b.num # 0 THEN FinRat(Rat(a.num * b.den, a.den * b.num))
    ELSE IF a.num > 0 THEN PInfRat
    ELSE IF a.num < 0 THEN NInfRat
    ELSE NaNRat

\* x > bound in float64 for a finite bound: false when x is NaN
FltGreaterRat(x, bound) ==
    CASE x.k = "fin" -> RatLess(bound, x.q)
      [] x.k = "pinf" -> TRUE
      [] OTHER -> FALSE

\* strings.EqualFold, strings.Contains, strings.Join(list, ",")
EqualFold(a, b) == ToUpper(a) = ToUpper(b)
Contains(str, sub) ==
    \E i \in 1..(Len(str) - Len(sub) + 1) : SubSeq(str, i, i + Len(sub) - 1) = sub
RECURSIVE Join(_)
Join(list) ==
    IF list = <<>> THEN <<>>
    ELSE IF Len(list) = 1 THEN list[1]
    ELSE list[1] \o <<",">> \o Join(Tail(list))

\* strings.Join(strings.Fields(s), " ")
RECURSIVE CollapseSpaces(_)
CollapseSpaces(s) ==
    LET t == TrimLeft(s)
    IN IF t = <<>> THEN <<>>
       ELSE IF Len(t) > 1 /\ t[1] # " " /\ t[2] = " " /\ TrimLeft(Tail(t)) # <<>>
            THEN <<t[1], " ">> \o CollapseSpaces(Tail(t))
       ELSE IF t[1] # " " /\ Len(t) > 1 /\ t[2] = " " THEN <<t[1]>>
       ELSE <<t[1]>> \o CollapseSpaces(Tail(t))

\* normalize (cmd/main.go): the canonical form of an address key
normalize(addr) ==
    CollapseSpaces(RemoveCommas(ToUpper(TrimSpace(addr))))

\* the days from 1970-01-01 to the civil date y-m-d
DaysFromCivil(y, m, d) ==
    LET yy == IF m <= 2 THEN y - 1 ELSE y
        era == yy \div 400
        yoe == yy - era * 400
        mp == IF m > 2 THEN m - 3 ELSE m + 9
        doy == (153 * mp + 2) \div 5 + d - 1
        doe == yoe * 365 + yoe \div 4 - yoe \div 100 + doy
    IN era * 146097 + doe - 719468

DaysInMonth(y, m) ==
    IF m = 2
    THEN IF (y % 4 = 0 /\ y % 100 # 0) \/ y % 400 = 0 THEN 29 ELSE 28
    ELSE IF m \in {4, 6, 9, 11} THEN 30 ELSE 31

\* time.Parse("01-02-2006", s): two digits, two digits and four digits
\* between dashes, a valid month and day; the time is midnight UTC of the
\* date, given here as a day number
parseDeedDate(str) ==
    IF /\ Len(str) = 10
       /\ str[3] = "-" /\ str[6] = "-"
       /\ \A i \in {1, 2, 4, 5, 7, 8, 9, 10} : IsDigit(str[i])
    THEN LET m == DecimalValue(SubSeq(str, 1, 2), 0)
             d == DecimalValue(SubSeq(str, 4, 5), 0)
             y == DecimalValue(SubSeq(str, 7, 10), 0)
         IN IF m \in 1..12 /\ d >= 1 /\ d <= DaysInMonth(y, m)
            THEN [day |-> DaysFromCivil(y, m, d), ok |-> TRUE]
            ELSE [day |-> 0, ok |-> FALSE]
    ELSE [day |-> 0, ok |-> FALSE]

\* strconv.Atoi(strings.TrimSpace(p.YearBuilt))
parseYear(str) == ParseNumber(TrimSpace(str))

\* REPLACE(s, '  ', ' '): one pass from the left over non-overlapping pairs
RECURSIVE ReplaceDoubleSpaces(_)
ReplaceDoubleSpaces(s) ==
    IF Len(s) < 2 THEN s
    ELSE IF s[1] = " " /\ s[2] = " "
         THEN <<" ">> \o ReplaceDoubleSpaces(SubSeq(s, 3, Len(s)))
    ELSE <<s[1]>> \o ReplaceDoubleSpaces(Tail(s))

\* QueryPropertyByAddress2024: the first row of PROPERTYDATA_2024 with
\* UPPER(REPLACE(REPLACE(Situs_Address, ',', ''), '  ', ' ')) = :1, or nil
RECURSIVE priorRow(_, _, _)
priorRow(rows, normalizedAddress, k) ==
    IF k > Len(rows) THEN [found |-> FALSE, TotalValue |-> <<>>]
    ELSE IF ToUpper(ReplaceDoubleSpaces(RemoveCommas(rows[k].SitusAddress)))
               = normalizedAddress
         THEN [found |-> TRUE, TotalValue |-> rows[k].TotalValue]
    ELSE priorRow(rows, normalizedAddress, k + 1)

Chars_absentee == <<"a", "b", "s", "e", "n", "t", "e", "e">>
Chars_longHold == <<"l", "o", "n", "g", "H", "o", "l", "d">>
Chars_taxShock == <<"t", "a", "x", "S", "h", "o", "c", "k">>
Chars_taxProtest == <<"t", "a", "x", "P", "r", "o", "t", "e", "s", "t">>
Chars_physical == <<"p", "h", "y", "s", "i", "c", "a", "l">>
Chars_Poor == <<"P", "o", "o", "r">>
Chars_Fair == <<"F", "a", "i", "r">>
Chars_Y == <<"Y">>

\* the subdivision key of a parcel: strings.ToUpper(strings.TrimSpace(name))
nbOf(p) == ToUpper(TrimSpace(p.Subdivision))

\* a variant of the baseline pass that counts a parcel only when its price
\* per square foot was added
RECURSIVE aggOfPriced(_, _, _)
aggOfPriced(props, nb, k) ==
    IF k = 0 THEN [sumPriceSqft |-> RatInt(0), sumYearBuilt |-> 0,
                   sumDepr |-> RatInt(0),
                   count |-> 0, ok |-> FALSE]
    ELSE LET a == aggOfPriced(props, nb, k - 1)
             p == props[k]
         IN IF nb = <<>> \/ nbOf(p) # nb THEN a
            ELSE LET total == parseDollar(p.TotalValue)
                     living == parseDollar(p.LivingArea)
                     y == parseYear(p.YearBuilt)
                     d == parseDollarQ(p.DepreciationPercent)
                     priced == total.ok /\ living.ok /\ living.v > 0
                 IN [sumPriceSqft |->
                        IF priced
                        THEN RatAdd(a.sumPriceSqft, Rat(total.v, living.v))
                        ELSE a.sumPriceSqft,
                     sumYearBuilt |-> IF y.ok THEN a.sumYearBuilt + y.v
                                      ELSE a.sumYearBuilt,
                     sumDepr |-> IF d.ok THEN RatAdd(a.sumDepr, d.q) ELSE a.sumDepr,
                     count |-> IF priced THEN a.count + 1 ELSE a.count,
                     ok |-> TRUE]

\* pass 1 for one key: *aggs[nb] after the first k parcels (ok: the key is in
\* the map)
RECURSIVE aggOf(_, _, _)
aggOf(props, nb, k) ==
    IF k = 0 THEN [sumPriceSqft |-> RatInt(0), sumYearBuilt |-> 0,
                   sumDepr |-> RatInt(0),
                   count |-> 0, ok |-> FALSE]
    ELSE LET a == aggOf(props, nb, k - 1)
             p == props[k]
         IN IF nb = <<>> \/ nbOf(p) # nb THEN a
            ELSE LET total == parseDollar(p.TotalValue)
                     living == parseDollar(p.LivingArea)
                     y == parseYear(p.YearBuilt)
                     d == parseDollarQ(p.DepreciationPercent)
                 IN [sumPriceSqft |->
                        IF total.ok /\ living.ok /\ living.v > 0
                        THEN RatAdd(a.sumPriceSqft, Rat(total.v, living.v))
                        ELSE a.sumPriceSqft,
                     sumYearBuilt |-> IF y.ok THEN a.sumYearBuilt + y.v
                                      ELSE a.sumYearBuilt,
                     sumDepr |-> IF d.ok THEN RatAdd(a.sumDepr, d.q) ELSE a.sumDepr,
                     count |-> a.count + 1,
                     ok |-> TRUE]

\* nbhdStats[nb] and whether the key is present
nbhdStat(props, nb) ==
    LET a == aggOf(props, nb, Len(props))
    IN IF ~a.ok \/ a.count = 0
       THEN [ok |-> FALSE, priceSqft |-> RatInt(0), yearBuilt |-> RatInt(0),
             depr |-> RatInt(0), count |-> 0]
       ELSE [ok |-> TRUE,
             priceSqft |-> RatDivInt(a.sumPriceSqft, a.count),
             yearBuilt |-> Rat(a.sumYearBuilt, a.count),
             depr |-> RatDivInt(a.sumDepr, a.count),
             count |-> a.count]

\* the largest power of two that is at most n, for n >= 1
RECURSIVE Pow2Floor(_)
Pow2Floor(n) == IF n < 2 THEN 1 ELSE 2 * Pow2Floor(n \div 2)

\* total > 1.15*prevVal in float64, for whole numbers and prevVal > 0.  The
\* float64 nearest to 1.15 is 1.15 - 0.4 * 2^-52, and the product is rounded
\* to the nearest float64 (ties to even).  Where 1.15 times prevVal is not
\* total, the rounding does not change the comparison; where it is total,
\* the product is rounded to total unless it lies more than half a step of
\* the float64 grid below it, which is when 0.4 * prevVal exceeds half the
\* largest power of two that is at most total
ExceedsShock(total, prevVal) ==
    LET exact == RatMul(ShockFactor, RatInt(prevVal))
    IN IF exact # RatInt(total) THEN RatLess(exact, RatInt(total))
       ELSE 4 * prevVal > 5 * Pow2Floor(total)

NoResult == [stage |-> "idle"]
Skipped(stage) == [stage |-> stage, result |-> NoResult]

\* a variant that appends taxProtest before taxShock
flagListProtestFirst(absentee, longHold, taxShock, taxProtest, physFlag) ==
    (IF absentee THEN <<Chars_absentee>> ELSE <<>>)
    \o (IF longHold THEN <<Chars_longHold>> ELSE <<>>)
    \o (IF taxProtest THEN <<Chars_taxProtest>> ELSE <<>>)
    \o (IF taxShock THEN <<Chars_taxShock>> ELSE <<>>)
    \o (IF physFlag THEN <<Chars_physical>> ELSE <<>>)

\* the flags of a parcel that passed the price and structural tests, in the
\* order the code appends them
flagListOf(absentee, longHold, taxShock, taxProtest, physFlag) ==
    (IF absentee THEN <<Chars_absentee>> ELSE <<>>)
    \o (IF longHold THEN <<Chars_longHold>> ELSE <<>>)
    \o (IF taxShock THEN <<Chars_taxShock>> ELSE <<>>)
    \o (IF taxProtest THEN <<Chars_taxProtest>> ELSE <<>>)
    \o (IF physFlag THEN <<Chars_physical>> ELSE <<>>)

\* a variant that sets the flag only above 40 percent
physFlagAbove(p, deprVal) ==
    \/ EqualFold(p.Condition, Chars_Poor)
    \/ EqualFold(p.Condition, Chars_Fair)
    \/ RatLess(RatInt(DeprPhysical), deprVal)

\* physFlag: the condition is Poor or Fair in any letter case, or the
\* depreciation is 40 percent or more
physFlagOf(p, deprVal) ==
    \/ EqualFold(p.Condition, Chars_Poor)
    \/ EqualFold(p.Condition, Chars_Fair)
    \/ RatLeq(RatInt(DeprPhysical), deprVal)

\* a variant that compares the city names as written
flagAbsenteeExact(p) ==
    p.City # <<>> /\ ~Contains(p.OwnerCityState, p.City)

\* flagAbsentee: the owner's city and state do not hold the parcel's city
flagAbsenteeOf(p) ==
    p.City # <<>> /\ ~Contains(ToUpper(p.OwnerCityState), ToUpper(p.City))

\* a variant that asks for more than ten years
flagLongHoldOver(p, now) ==
    LET t == parseDeedDate(p.DeedDate)
    IN t.ok /\ now - t.day > LongHoldDays

\* flagLongHold: the deed date parses and now.Sub(t) is ten years of 365
\* days or more; t is a midnight, so the days between decide
flagLongHoldOf(p, now) ==
    LET t == parseDeedDate(p.DeedDate)
    IN t.ok /\ now - t.day >= LongHoldDays

\* flagTaxProtest
flagTaxProtestOf(p) == EqualFold(TrimSpace(p.ARBIndicator), Chars_Y)

\* flagTaxShock: the prior-year row of the normalized address was read, its
\* value parses and is positive, and total > 1.15*prevVal
flagTaxShockOf(p, total, prior, priorFails) ==
    LET prev == priorRow(prior, normalize(p.SitusAddress), 1)
        prevVal == parseDollar(prev.TotalValue)
    IN /\ ~priorFails /\ prev.found
       /\ prevVal.ok /\ prevVal.v > 0
       /\ ExceedsShock(total, prevVal.v)

\* a variant in which the physical flag counts as a signal
anySignalOrPhysical(absentee, longHold, taxProtest, taxShock, physFlag) ==
    absentee \/ longHold \/ taxProtest \/ taxShock \/ physFlag

\* flagAbsentee+flagLongHold+flagTaxProtest+flagTaxShock != 0
anySignal(absentee, longHold, taxProtest, taxShock, physFlag) ==
    absentee \/ longHold \/ taxProtest \/ taxShock

\* one iteration of pass 2: the stage at which the parcel leaves the loop
\* body and, when it is appended, its result
scoreOf(p, sub, stat, prior, priorFails, now) ==
    IF nbOf(p) # sub THEN Skipped("otherSubdivision")
    ELSE IF ~stat.ok \/ stat.count < MinGroup THEN Skipped("unreliable")
    ELSE
    LET total == parseDollar(p.TotalValue)
        living == parseDollar(p.LivingArea)
    IN IF ~total.ok \/ ~living.ok \/ living.v = 0 THEN Skipped("unparsed")
    ELSE
    LET priceRatio == FltDiv(Rat(total.v, living.v), stat.priceSqft)
    IN IF FltGreaterRat(priceRatio, PriceGate) THEN Skipped("priceGate")
    ELSE
    LET yearBuilt == parseYear(p.YearBuilt)
        ageGap == IF yearBuilt.ok THEN RatSub(stat.yearBuilt, RatInt(yearBuilt.v))
                  ELSE RatInt(0)
        deprVal == parseDollarQ(p.DepreciationPercent).q
        deprGap == RatSub(deprVal, stat.depr)
        physFlag == physFlagOf(p, deprVal)
    IN IF ~(\/ RatLeq(RatInt(AgeGapMin), ageGap)
            \/ RatLeq(RatInt(DeprGapMin), deprGap)
            \/ physFlag)
       THEN Skipped("structural")
    ELSE
    LET flagAbsentee == flagAbsenteeOf(p)
        flagLongHold == flagLongHoldOf(p, now)
        flagTaxProtest == flagTaxProtestOf(p)
        flagTaxShock == flagTaxShockOf(p, total.v, prior, priorFails)
    IN IF ~anySignal(flagAbsentee, flagLongHold, flagTaxProtest, flagTaxShock,
                     physFlag)
       THEN Skipped("noSignal")
       ELSE [stage |-> "returned",
             result |->
                [Property |-> p, PriceRatio |-> priceRatio, AgeGap |-> ageGap,
                 DeprGap |-> deprGap,
                 Flags |-> Join(flagListOf(flagAbsentee, flagLongHold,
                                           flagTaxShock, flagTaxProtest, physFlag)),
                 NbhdCount |-> stat.count]]

\* pass 2 over all parcels: what became of each
RECURSIVE scoresFrom(_, _, _, _, _, _, _)
scoresFrom(props, key, stat, prior, priorFails, now, k) ==
    IF k > Len(props) THEN <<>>
    ELSE <<scoreOf(props[k], key, stat, prior, priorFails, now)>>
         \o scoresFrom(props, key, stat, prior, priorFails, now, k + 1)

scoresOf(sub, props, prior, priorFails, now) ==
    LET key == ToUpper(TrimSpace(sub))
    IN scoresFrom(props, key, nbhdStat(props, key), prior, priorFails, now, 1)

RECURSIVE resultsOf(_, _)
resultsOf(scores, k) ==
    IF k > Len(scores) THEN <<>>
    ELSE IF scores[k].stage = "returned"
         THEN <<scores[k].result>> \o resultsOf(scores, k + 1)
    ELSE resultsOf(scores, k + 1)

findDistressedInSubdivision(sub, props, prior, priorFails, now) ==
    resultsOf(scoresOf(sub, props, prior, priorFails, now), 1)

(***************************************************************************)
(* The tables of the distress runs.  A subdivision is filled with          *)
(* look-alike parcels around one parcel under test and one parcel that     *)
(* sets the subdivision's average; prices are per one square foot.         *)
(***************************************************************************)
DParcel(sub, total, living, year, owner, situs) ==
    [Subdivision |-> sub, TotalValue |-> total, LivingArea |-> living,
     YearBuilt |-> year, DepreciationPercent |-> Text(10),
     Condition |-> <<"G", "o", "o", "d">>, City |-> <<"F", "W">>,
     OwnerCityState |-> owner, DeedDate |-> <<>>, ARBIndicator |-> <<"N">>,
     SitusAddress |-> situs]

OwnerLocal == <<"f", "w", " ", "T", "X">>
OwnerAway == <<"D", "A", "L">>
Minus(str) == <<"-">> \o str

\* the parcel under test: 69, 70, 71 or nothing a square foot; a living
\* area that is positive, zero or negative; 30 years older than the rest
\* with an owner out of town or in town, or as old as the rest
TargetKinds ==
    {DParcel(OAK, total, living, profile[1], profile[2], <<"1", " ", "A">>) :
        total \in {Text(69), Text(70), Text(71), Text(0)},
        living \in {Text(1), Text(0), Minus(Text(1))},
        profile \in {<<Text(1960), OwnerAway>>, <<Text(1960), OwnerLocal>>,
                     <<Text(1990), OwnerLocal>>}}

\* the look-alikes: 100 a square foot, worth nothing, or without living area
FillerKinds ==
    {DParcel(OAK, total, living, Text(1990), OwnerLocal, <<"2", " ", "B">>) :
        <<total, living>> \in {<<Text(100), Text(1)>>, <<Text(0), Text(1)>>,
                              <<Text(100), Text(0)>>}}

\* with 100 a square foot around it, the parcel under test and this one
\* average 100 when their prices add up to 200
AdjusterKinds ==
    {DParcel(OAK, total, Text(1), Text(1990), OwnerLocal, <<"3", " ", "C">>) :
        total \in {Text(129), Text(130), Text(131), Text(0)}}

\* a last row: none, a parcel of another subdivision, or a parcel whose
\* subdivision name is written differently
ExtraRows ==
    {<<>>,
     <<DParcel(ELM, Text(1000), Text(1), Text(1990), OwnerAway, <<"4", " ", "D">>)>>,
     <<DParcel(<<" ", "o", "a", "k">>, Text(100), Text(1), Text(1990), OwnerAway,
               <<"5", " ", "E">>)>>}

FillCounts == {0, MaxFill - 1, MaxFill}

DistressTables ==
    {<<t>> \o [i \in 1..n |-> f] \o <<a>> \o x :
        t \in TargetKinds, n \in FillCounts, f \in FillerKinds,
        a \in AdjusterKinds, x \in ExtraRows}

PriorTables ==
    {<<>>,
     <<[SitusAddress |-> <<"1", " ", " ", "a">>, TotalValue |-> Text(60)]>>}

DSubInputs == {<<"o", "a", "k">>, ELM}

\* time.Now(), as a day number
NowDays == {DaysFromCivil(2025, 1, 13)}

DsIdle == [pc |-> "idle"]

DistressInit ==
    /\ layerFiles = <<>>
    /\ zoningFeatures = <<>>
    /\ initErr = ""
    /\ zoningPc = "ready"
    /\ lookup = NoLookup
    /\ uvCall = UvIdle
    /\ propertyData \in DistressTables
    /\ propertyData2024 \in PriorTables
    /\ dsCall = DsIdle
    /\ ReadFileIdle
    /\ ExtrasIdle("none")

\* what the handler or a caller holds when the filter has returned
DsShown(path, sub, err, props, priorFails, now) ==
    LET scores == scoresOf(sub, props, propertyData2024, priorFails, now)
    IN [pc |-> "shown", path |-> path, sub |-> sub, err |-> err,
        props |-> props, priorFails |-> priorFails, now |-> now,
        stat |-> nbhdStat(props, ToUpper(TrimSpace(sub))),
        stages |-> [k \in 1..Len(props) |-> scores[k].stage],
        results |-> resultsOf(scores, 1)]

\* handleSubdivisionQuery, choice 2: the rows of the subdivision are queried
\* and filtered; a failed query ends the handler with a message
DistressedFilter ==
    /\ dsCall.pc = "idle"
    /\ \E sub \in DSubInputs, now \in NowDays :
          \/ dsCall' = DsShown("db", sub, TRUE, <<>>, FALSE, now)
          \/ \E priorFails \in BOOLEAN :
                dsCall' = DsShown("db", sub, FALSE,
                                  QuerySubdivisionProperties(sub), priorFails, now)
    /\ UNCHANGED <<zvars, uvars, propertyData2024, rvars, xvars>>

\* findDistressedInSubdivision applied to a full parcel set
FindDistressed ==
    /\ dsCall.pc = "idle"
    /\ \E sub \in DSubInputs, priorFails \in BOOLEAN, now \in NowDays :
          dsCall' = DsShown("all", sub, FALSE, propertyData, priorFails, now)
    /\ UNCHANGED <<zvars, uvars, propertyData2024, rvars, xvars>>

DsReturn ==
    /\ dsCall.pc = "shown"
    /\ dsCall' = DsIdle
    /\ UNCHANGED <<zvars, uvars, propertyData2024, rvars, xvars>>

DistressNext == DistressedFilter \/ FindDistressed \/ DsReturn

SpecDistress == DistressInit /\ [][DistressNext]_vars

(***************************************************************************)
(* The tables of the scoring runs: a subdivision of MaxFill + 2 parcels in *)
(* which the parcel under test is well below the price gate.  In the       *)
(* structural tables its year, depreciation and condition vary, and the    *)
(* last member of the group may lack a field; in the signal tables its     *)
(* owner, deed date, protest indicator, value and prior-year record vary.  *)
(***************************************************************************)
SParcel(total, living, year, depr, cond, city, owner, deed, arb, situs) ==
    [Subdivision |-> OAK, TotalValue |-> total, LivingArea |-> living,
     YearBuilt |-> year, DepreciationPercent |-> depr, Condition |-> cond,
     City |-> city, OwnerCityState |-> owner, DeedDate |-> deed,
     ARBIndicator |-> arb, SitusAddress |-> situs]

CondGood == <<"G", "o", "o", "d">>
CityFW == <<"F", "W">>
TargetSitus == <<"1", ",", " ", "a">>

\* the look-alikes: 200 a square foot, built 1992, 13 percent depreciated
ScoringFiller ==
    SParcel(Text(200), Text(1), Text(1992), Text(13), CondGood, CityFW,
            OwnerLocal, <<>>, <<"N">>, <<"2", " ", "B">>)

\* the last member: built 1994 and 16 percent depreciated, so that with 8
\* look-alikes a parcel built 1970 is exactly 20 years older than the mean
\* and a parcel 30 percent depreciated is exactly 15 points above the mean;
\* or without a year, without a depreciation, without living area, or with
\* a depreciation far below zero
LastMember(living, year, depr) ==
    SParcel(Text(200), living, year, depr, CondGood, CityFW, OwnerLocal, <<>>,
            <<"N">>, <<"3", " ", "C">>)

LastMemberKinds ==
    {LastMember(Text(1), Text(1994), Text(16)),
     LastMember(Text(1), <<>>, Text(16)),
     LastMember(Text(1), Text(1994), <<"n", "/", "a">>),
     LastMember(Text(0), Text(1994), Text(16)),
     LastMember(Text(1), Text(1994), Minus(Text(400)))}

StructuralTargets ==
    {SParcel(Text(115), Text(1), year, depr, cond, CityFW, OwnerAway, <<>>,
             <<"N">>, TargetSitus) :
        year \in {Text(1970), Text(1971), <<>>},
        depr \in {Text(30), Text(29), Text(40), <<"3", "9", ".", "9", "9">>, <<"n", "/", "a">>},
        cond \in {CondGood, <<"p", "O", "O", "r">>, <<"F", "A", "I", "R">>}}

\* deeds of 3650 and of 3649 days before 2025-01-13, no deed, and a day
\* that is not in the calendar
DeedDates == {<<>>, <<"0", "1", "-", "1", "6", "-", "2", "0", "1", "5">>, <<"0", "1", "-", "1", "7", "-", "2", "0", "1", "5">>, <<"0", "2", "-", "3", "0", "-", "2", "0", "1", "0">>}

SignalTargets ==
    {SParcel(total, Text(1), profile[1], Text(10), profile[2], place[1],
             place[2], deed, arb, TargetSitus) :
        total \in {Text(115), Text(23)},
        profile \in {<<Text(1990), <<"P", "o", "o", "r">>>>, <<Text(1960), CondGood>>},
        place \in {<<CityFW, OwnerLocal>>, <<CityFW, OwnerAway>>,
                   <<<<>>, OwnerAway>>},
        deed \in DeedDates,
        arb \in {<<"N">>, <<" ", "y", " ">>}}

PriorRow(situs, total) == [SitusAddress |-> situs, TotalValue |-> total]
OtherPrior == PriorRow(<<"9", " ", "Z">>, Text(1))

\* the prior-year rows: none for the address, or one worth 100, 20, nothing
\* or without a value
SignalPriors ==
    {<<>>, <<OtherPrior>>} \cup
    {<<OtherPrior, PriorRow(<<"1", " ", " ", "a">>, total)>> :
        total \in {Text(100), Text(20), Text(0), <<"n", "/", "a">>}}

ScoringTable(target, last) ==
    <<target>> \o [i \in 1..MaxFill |-> ScoringFiller] \o <<last>>

ScoringCases ==
    {<<ScoringTable(t, l), <<>>>> : t \in StructuralTargets, l \in LastMemberKinds}
    \cup
    {<<ScoringTable(t, LastMember(Text(1), Text(1994), Text(16))), prior>> :
        t \in SignalTargets, prior \in SignalPriors}

ScoringInit ==
    /\ layerFiles = <<>>
    /\ zoningFeatures = <<>>
    /\ initErr = ""
    /\ zoningPc = "ready"
    /\ lookup = NoLookup
    /\ uvCall = UvIdle
    /\ \E c \in ScoringCases :
          /\ propertyData = c[1]
          /\ propertyData2024 = c[2]
    /\ dsCall = DsIdle
    /\ ReadFileIdle
    /\ ExtrasIdle("none")

SpecScoring == ScoringInit /\ [][DistressNext]_vars


(***************************************************************************)
(* Properties of the distress filter.  The statistics of a subdivision are *)
(* computed here over index sets of the parcel list the filter was given.  *)
(***************************************************************************)
DsDone == dsCall.pc = "shown"

\* the baseline group of the target: the parcels whose trimmed, upper-cased
\* subdivision name is the trimmed, upper-cased target
GroupOf(props, sub) ==
    {i \in 1..Len(props) :
        ToUpper(TrimSpace(props[i].Subdivision)) = ToUpper(TrimSpace(sub))}

PriceOf(p) == Rat(parseDollar(p.TotalValue).v, parseDollar(p.LivingArea).v)

PricedIn(props, G) ==
    {i \in G : /\ parseDollar(props[i].TotalValue).ok
               /\ parseDollar(props[i].LivingArea).ok
               /\ parseDollar(props[i].LivingArea).v > 0}

RECURSIVE PriceSum(_, _)
PriceSum(props, S) ==
    IF S = {} THEN RatInt(0)
    ELSE LET i == CHOOSE j \in S : TRUE
         IN RatAdd(PriceOf(props[i]), PriceSum(props, S \ {i}))

\* the subdivision's mean price per square foot, as the baseline pass
\* divides it
MeanPrice(props, sub) ==
    LET G == GroupOf(props, sub)
    IN RatDivInt(PriceSum(props, PricedIn(props, G)), Cardinality(G))

\* priceRatio <= bound for the float64 quotient of the parcel's price and
\* the mean: with a mean of zero the quotient is -Inf for a negative price
\* and +Inf or NaN otherwise
PriceRatioAtMost(p, mean, bound) ==
    IF mean.num = 0 THEN PriceOf(p).num < 0
    ELSE RatLeq(Rat(PriceOf(p).num * mean.den, PriceOf(p).den * mean.num), bound)

\* the parcel got as far as the price gate
AtPriceGate(k) ==
    dsCall.stages[k] \notin {"otherSubdivision", "unreliable", "unparsed"}

\* C9: a parcel that reaches the price gate continues past it if and only
\* if its priceRatio - its price per square foot divided by the mean price
\* per square foot of its subdivision - is at most 0.70
C9_PastPriceGateIffRatioAtMostSeventy ==
    DsDone =>
        \A k \in 1..Len(dsCall.props) :
            AtPriceGate(k) =>
                (dsCall.stages[k] # "priceGate"
                 <=> PriceRatioAtMost(dsCall.props[k],
                                      MeanPrice(dsCall.props, dsCall.sub),
                                      Rat(70, 100)))

\* C10: the filter returns nothing when the baseline group of the target has
\* fewer than 10 members; every result is a parcel of the target subdivision
\* and reports as NbhdCount the member count of the group, which is at least 10
C10_ResultsOnlyFromGroupsOfTen ==
    DsDone =>
        LET members == Cardinality(GroupOf(dsCall.props, dsCall.sub))
        IN /\ members < 10 => dsCall.results = <<>>
           /\ \A i \in 1..Len(dsCall.results) :
                 LET r == dsCall.results[i]
                 IN /\ ToUpper(TrimSpace(r.Property.Subdivision))
                          = ToUpper(TrimSpace(dsCall.sub))
                    /\ r.NbhdCount = members
                    /\ members >= 10

\* a result from a group of exactly ten, one of them without living area and
\* one with the name written differently, among parcels of another subdivision
C10_Witness ==
    /\ DsDone
    /\ dsCall.results # <<>>
    /\ LET G == GroupOf(dsCall.props, dsCall.sub)
       IN /\ Cardinality(G) = 10
          /\ Cardinality(G) < Len(dsCall.props)
          /\ PricedIn(dsCall.props, G) # G

(***************************************************************************)
(* Properties of the scoring pass.                                         *)
(***************************************************************************)
\* the members of a group whose year built, and whose depreciation, parsed
YearIn(props, G) == {i \in G : parseYear(props[i].YearBuilt).ok}
DeprIn(props, G) == {i \in G : parseDollarQ(props[i].DepreciationPercent).ok}

RECURSIVE YearSum(_, _)
YearSum(props, S) ==
    IF S = {} THEN 0
    ELSE LET i == CHOOSE j \in S : TRUE
         IN parseYear(props[i].YearBuilt).v + YearSum(props, S \ {i})

RECURSIVE DeprSum(_, _)
DeprSum(props, S) ==
    IF S = {} THEN RatInt(0)
    ELSE LET i == CHOOSE j \in S : TRUE
         IN RatAdd(parseDollarQ(props[i].DepreciationPercent).q,
                   DeprSum(props, S \ {i}))

\* the mean of the members that contributed: the sum over their number, and
\* not the number zero when there is none
MeanOverContributors(mean, sum, n) ==
    IF n = 0 THEN mean # RatInt(0) ELSE mean = RatDivInt(sum, n)

\* the means of the target's group over the members that have the field
TrueMeanYear(props, sub) ==
    LET C == YearIn(props, GroupOf(props, sub))
    IN Rat(YearSum(props, C), Cardinality(C))
TrueMeanDepr(props, sub) ==
    LET C == DeprIn(props, GroupOf(props, sub))
    IN RatDivInt(DeprSum(props, C), Cardinality(C))

\* C11: each mean of the target's group - price per square foot, year
\* built, depreciation - is the sum of the parsed values divided by the
\* number of members that contributed to the sum, and is not zero when no
\* member contributed
C11_MeansOverContributingMembers ==
    (DsDone /\ dsCall.stat.ok) =>
        LET props == dsCall.props
            G == GroupOf(props, dsCall.sub)
            P == PricedIn(props, G)
            Y == YearIn(props, G)
            D == DeprIn(props, G)
        IN /\ MeanOverContributors(dsCall.stat.priceSqft, PriceSum(props, P),
                                   Cardinality(P))
           /\ MeanOverContributors(dsCall.stat.yearBuilt,
                                   RatInt(YearSum(props, Y)), Cardinality(Y))
           /\ MeanOverContributors(dsCall.stat.depr, DeprSum(props, D),
                                   Cardinality(D))

\* the parcel got past the price gate, and past the structural test
PastPriceGate(k) ==
    dsCall.stages[k] \in {"structural", "noSignal", "returned"}
PastStructural(k) == dsCall.stages[k] \in {"noSignal", "returned"}

\* the physical flag of a parcel, from its fields
PhysicalOf(p) ==
    \/ ToUpper(p.Condition) \in {<<"P", "O", "O", "R">>, <<"F", "A", "I", "R">>}
    \/ /\ parseDollarQ(p.DepreciationPercent).ok
       /\ RatLeq(RatInt(40), parseDollarQ(p.DepreciationPercent).q)

\* ageGap >= 20 and deprGap >= 15 against the means of the members that
\* have the field; a parcel without the field has no gap
AgeGapAtLeast(p, props, sub, years) ==
    /\ parseYear(p.YearBuilt).ok
    /\ RatLeq(RatInt(years),
              RatSub(TrueMeanYear(props, sub), RatInt(parseYear(p.YearBuilt).v)))
DeprGapAtLeast(p, props, sub, points) ==
    /\ parseDollarQ(p.DepreciationPercent).ok
    /\ RatLeq(RatInt(points),
              RatSub(parseDollarQ(p.DepreciationPercent).q,
                     TrueMeanDepr(props, sub)))

\* C12: a parcel that passed the price gate is kept by the structural test
\* if and only if its ageGap (group mean year built less its year built) is
\* at least 20, or its deprGap (its depreciation less the group mean
\* depreciation) is at least 15, or its physical flag is set
C12_KeptIffAgeGapDeprGapOrPhysical ==
    DsDone =>
        \A k \in 1..Len(dsCall.props) :
            PastPriceGate(k) =>
                (PastStructural(k)
                 <=> \/ AgeGapAtLeast(dsCall.props[k], dsCall.props, dsCall.sub, 20)
                     \/ DeprGapAtLeast(dsCall.props[k], dsCall.props, dsCall.sub, 15)
                     \/ PhysicalOf(dsCall.props[k]))

\* the names in a comma-joined list
RECURSIVE SplitCommas(_, _)
SplitCommas(str, word) ==
    IF str = <<>> THEN (IF word = <<>> THEN <<>> ELSE <<word>>)
    ELSE IF Head(str) = "," THEN <<word>> \o SplitCommas(Tail(str), <<>>)
    ELSE SplitCommas(Tail(str), word \o <<Head(str)>>)

FlagsOf(r) == SplitCommas(r.Flags, <<>>)
HasFlag(r, name) == \E i \in 1..Len(FlagsOf(r)) : FlagsOf(r)[i] = name

Name_physical == <<"p", "h", "y", "s", "i", "c", "a", "l">>
Name_absentee == <<"a", "b", "s", "e", "n", "t", "e", "e">>
Name_longHold == <<"l", "o", "n", "g", "H", "o", "l", "d">>
Name_taxShock == <<"t", "a", "x", "S", "h", "o", "c", "k">>
Name_taxProtest == <<"t", "a", "x", "P", "r", "o", "t", "e", "s", "t">>

\* C13: the physical flag of a parcel is set if and only if its condition
\* is Poor or Fair in any letter case or its depreciation is 40 percent or
\* more: a result carries the flag exactly then, and a parcel past the
\* price gate for which this holds passes the structural test
C13_PhysicalIffPoorFairOrForty ==
    DsDone =>
        /\ \A i \in 1..Len(dsCall.results) :
              HasFlag(dsCall.results[i], Name_physical)
              <=> PhysicalOf(dsCall.results[i].Property)
        /\ \A k \in 1..Len(dsCall.props) :
              (PastPriceGate(k) /\ PhysicalOf(dsCall.props[k])) => PastStructural(k)

\* a result in good condition and exactly 40 percent depreciated, which
\* carries the flag
C13_Witness ==
    /\ DsDone
    /\ \E i \in 1..Len(dsCall.results) :
          LET r == dsCall.results[i]
          IN /\ ToUpper(r.Property.Condition) = <<"G", "O", "O", "D">>
             /\ r.Property.DepreciationPercent = <<"4", "0">>
             /\ HasFlag(r, Name_physical)

\* The four ownership and finance signals of a parcel, from its fields.
AbsenteeOf(p) ==
    /\ p.City # <<>>
    /\ \A i \in 1..(Len(p.OwnerCityState) + 1) :
          LET j == i + Len(p.City) - 1
          IN j > Len(p.OwnerCityState)
             \/ ToUpper(SubSeq(p.OwnerCityState, i, j)) # ToUpper(p.City)

\* the day number of a date, counted from 1970-01-01 by whole years, the
\* leap days among them, and the months of the year
LeapYear(y) == (y % 4 = 0 /\ y % 100 # 0) \/ y % 400 = 0
LeapDaysBefore(y) == (y - 1) \div 4 - (y - 1) \div 100 + (y - 1) \div 400
MonthLengths(y) ==
    <<31, IF LeapYear(y) THEN 29 ELSE 28, 31, 30, 31, 30, 31, 31, 30, 31, 30, 31>>
RECURSIVE DaysBeforeMonth(_, _)
DaysBeforeMonth(y, m) ==
    IF m = 1 THEN 0 ELSE MonthLengths(y)[m - 1] + DaysBeforeMonth(y, m - 1)
DayNumber(y, m, d) ==
    365 * (y - 1970) + LeapDaysBefore(y) - LeapDaysBefore(1970)
    + DaysBeforeMonth(y, m) + d - 1

TwoDigits(str, i) == DigitValue(str[i]) * 10 + DigitValue(str[i + 1])

\* the deed date is a day of the calendar written MM-DD-YYYY
DeedParses(str) ==
    /\ Len(str) = 10
    /\ \A i \in 1..10 : IF i \in {3, 6} THEN str[i] = "-" ELSE IsDigit(str[i])
    /\ TwoDigits(str, 1) \in 1..12
    /\ TwoDigits(str, 4) >= 1
    /\ TwoDigits(str, 4)
          <= MonthLengths(TwoDigits(str, 7) * 100 + TwoDigits(str, 9))[TwoDigits(str, 1)]

\* the whole days from the deed date to the evaluation day
DeedAge(str, now) ==
    now - DayNumber(TwoDigits(str, 7) * 100 + TwoDigits(str, 9),
                    TwoDigits(str, 1), TwoDigits(str, 4))

LongHoldOf(p, now) == DeedParses(p.DeedDate) /\ DeedAge(p.DeedDate, now) >= 3650

ProtestOf(p) == ToUpper(TrimSpace(p.ARBIndicator)) = <<"Y">>

\* the prior-year rows of the parcel's address: the address in capitals,
\* without commas and with single spaces on both sides
PriorKey(addr) == ToUpper(ReplaceDoubleSpaces(RemoveCommas(addr)))
PriorsOf(p, prior) ==
    {i \in 1..Len(prior) : PriorKey(prior[i].SitusAddress) = normalize(p.SitusAddress)}

\* the prior-year value of the parcel was read and is a positive number P,
\* and the current value is above (below) 1.15 * P
ShockAbove(p, prior, priorFails) ==
    /\ ~priorFails
    /\ \E i \in PriorsOf(p, prior) :
          /\ parseDollar(prior[i].TotalValue).ok
          /\ parseDollar(prior[i].TotalValue).v > 0
          /\ 100 * parseDollar(p.TotalValue).v > 115 * parseDollar(prior[i].TotalValue).v
ShockBelow(p, prior, priorFails) ==
    \/ priorFails
    \/ \A i \in PriorsOf(p, prior) :
          \/ ~parseDollar(prior[i].TotalValue).ok
          \/ /\ parseDollar(prior[i].TotalValue).v > 0
             /\ 100 * parseDollar(p.TotalValue).v < 115 * parseDollar(prior[i].TotalValue).v

\* C14: a parcel that passed the price gate and the structural test is
\* returned if and only if at least one of the signals absentee, longHold,
\* taxProtest and taxShock is tripped: every result carries one of the four,
\* a parcel with one of them is returned, and a parcel with none of them is
\* not, physical flag or no (for taxShock: a current value above,
\* respectively below, 1.15 times a positive prior value)
C14_ReturnedIffASignal ==
    DsDone =>
        /\ \A i \in 1..Len(dsCall.results) :
              \E name \in {Name_absentee, Name_longHold, Name_taxProtest,
                           Name_taxShock} : HasFlag(dsCall.results[i], name)
        /\ \A k \in 1..Len(dsCall.props) :
              LET p == dsCall.props[k]
              IN PastStructural(k) =>
                    /\ (\/ AbsenteeOf(p) \/ LongHoldOf(p, dsCall.now)
                        \/ ProtestOf(p)
                        \/ ShockAbove(p, propertyData2024, dsCall.priorFails))
                          => dsCall.stages[k] = "returned"
                    /\ (/\ ~AbsenteeOf(p) /\ ~LongHoldOf(p, dsCall.now)
                        /\ ~ProtestOf(p)
                        /\ ShockBelow(p, propertyData2024, dsCall.priorFails))
                          => dsCall.stages[k] = "noSignal"

\* a parcel with the physical flag and none of the four signals, which
\* passed the structural test and is not returned
C14_Witness ==
    /\ DsDone
    /\ \E k \in 1..Len(dsCall.props) :
          /\ dsCall.stages[k] = "noSignal"
          /\ PhysicalOf(dsCall.props[k])

\* C15: the absentee signal of a parcel is tripped if and only if its city
\* is not empty and the owner's city and state, in capitals, do not contain
\* the city in capitals; with an empty city it is never tripped
C15_AbsenteeIffCityNotInOwnerCity ==
    DsDone =>
        \A i \in 1..Len(dsCall.results) :
            LET r == dsCall.results[i]
            IN /\ HasFlag(r, Name_absentee) <=> AbsenteeOf(r.Property)
               /\ r.Property.City = <<>> => ~HasFlag(r, Name_absentee)

\* a result without the absentee flag whose city is in the owner's city
\* and state only when letter case is ignored
C15_Witness ==
    /\ DsDone
    /\ \E i \in 1..Len(dsCall.results) :
          LET r == dsCall.results[i]
          IN /\ ~HasFlag(r, Name_absentee)
             /\ r.Property.City # <<>>
             /\ r.Property.OwnerCityState # ToUpper(r.Property.OwnerCityState)

\* C16: the longHold signal of a parcel is tripped if and only if its deed
\* date parses as month-day-year and lies at least 3650 days before the
\* evaluation time
C16_LongHoldIffDeedTenYearsOld ==
    DsDone =>
        \A i \in 1..Len(dsCall.results) :
            LET r == dsCall.results[i]
            IN HasFlag(r, Name_longHold) <=> LongHoldOf(r.Property, dsCall.now)

\* a result whose deed is exactly 3650 days old and which has the flag
C16_Witness ==
    /\ DsDone
    /\ \E i \in 1..Len(dsCall.results) :
          LET r == dsCall.results[i]
          IN /\ DeedParses(r.Property.DeedDate)
             /\ DeedAge(r.Property.DeedDate, dsCall.now) = 3650
             /\ HasFlag(r, Name_longHold)

\* taxShock as the specification words it: a prior-year row of the address
\* was read, its value P parses, and 1.15 * P is less than the current value
ShockOf(p, prior, priorFails) ==
    /\ ~priorFails
    /\ \E i \in PriorsOf(p, prior) :
          /\ parseDollar(prior[i].TotalValue).ok
          /\ 115 * parseDollar(prior[i].TotalValue).v < 100 * parseDollar(p.TotalValue).v

\* C17: the taxShock signal of a parcel is tripped if and only if a
\* prior-year record of its normalized address exists with a parseable value
\* P and 1.15 * P is less than the parcel's current value; a parcel for which
\* this holds is returned once it passed the structural test
C17_TaxShockIffFifteenPercentAbovePrior ==
    DsDone =>
        /\ \A i \in 1..Len(dsCall.results) :
              HasFlag(dsCall.results[i], Name_taxShock)
              <=> ShockOf(dsCall.results[i].Property, propertyData2024,
                          dsCall.priorFails)
        /\ \A k \in 1..Len(dsCall.props) :
              (PastStructural(k)
               /\ ShockOf(dsCall.props[k], propertyData2024, dsCall.priorFails))
                  => dsCall.stages[k] = "returned"

\* the flags in their fixed order
FlagOrder ==
    <<Name_absentee, Name_longHold, Name_taxShock, Name_taxProtest, Name_physical>>
FlagRank(name) == CHOOSE n \in 1..Len(FlagOrder) : FlagOrder[n] = name

\* C18: the Flags of a result are the comma-joined names of exactly the
\* flags tripped for the parcel, from absentee, longHold, taxShock,
\* taxProtest, physical, in that order and without duplicates (taxShock
\* tripped: a current value above 1.15 times a positive prior value; clear:
\* one below it, or no readable prior value)
C18_FlagsAreTheTrippedFlagsInOrder ==
    DsDone =>
        \A i \in 1..Len(dsCall.results) :
            LET r == dsCall.results[i]
                p == r.Property
                names == FlagsOf(r)
            IN /\ r.Flags = Join(names)
               /\ \A n \in 1..Len(names) :
                     \E m \in 1..Len(FlagOrder) : names[n] = FlagOrder[m]
               /\ \A n \in 1..(Len(names) - 1) :
                     FlagRank(names[n]) < FlagRank(names[n + 1])
               /\ HasFlag(r, Name_absentee) <=> AbsenteeOf(p)
               /\ HasFlag(r, Name_longHold) <=> LongHoldOf(p, dsCall.now)
               /\ HasFlag(r, Name_taxProtest) <=> ProtestOf(p)
               /\ HasFlag(r, Name_physical) <=> PhysicalOf(p)
               /\ ShockAbove(p, propertyData2024, dsCall.priorFails)
                     => HasFlag(r, Name_taxShock)
               /\ ShockBelow(p, propertyData2024, dsCall.priorFails)
                     => ~HasFlag(r, Name_taxShock)

\* a result with absentee, longHold and physical tripped and taxShock and
\* taxProtest clear, whose Flags are "absentee,longHold,physical"
C18_Witness ==
    /\ DsDone
    /\ \E i \in 1..Len(dsCall.results) :
          LET r == dsCall.results[i]
          IN /\ AbsenteeOf(r.Property) /\ LongHoldOf(r.Property, dsCall.now)
             /\ PhysicalOf(r.Property) /\ ~ProtestOf(r.Property)
             /\ ShockBelow(r.Property, propertyData2024, dsCall.priorFails)
             /\ r.Flags = <<"a", "b", "s", "e", "n", "t", "e", "e", ",",
                            "l", "o", "n", "g", "H", "o", "l", "d", ",",
                            "p", "h", "y", "s", "i", "c", "a", "l">>

\* C19: a year built or a depreciation that does not parse disables the
\* test derived from it: a parcel past the price gate with neither a year
\* nor a depreciation and a condition other than Poor and Fair satisfies no
\* structural test and is not kept, and a result without a readable
\* depreciation has the physical flag only for its condition
C19_UnparseableFieldDisablesItsTest ==
    DsDone =>
        /\ \A k \in 1..Len(dsCall.props) :
              LET p == dsCall.props[k]
              IN (/\ PastPriceGate(k)
                  /\ ~parseYear(p.YearBuilt).ok
                  /\ ~parseDollarQ(p.DepreciationPercent).ok
                  /\ ~PhysicalOf(p))
                     => dsCall.stages[k] = "structural"
        /\ \A i \in 1..Len(dsCall.results) :
              LET r == dsCall.results[i]
              IN ~parseDollarQ(r.Property.DepreciationPercent).ok
                    => (HasFlag(r, Name_physical) <=> PhysicalOf(r.Property))

(***************************************************************************)
(* readFile (flat-file loader): the calling goroutine scans the lines and  *)
(* queues them on linesCh, runtime.NumCPU() worker goroutines take them    *)
(* off and call fn.  A queued line carries its line number, which the code *)
(* does not have, so that the calls can be counted per line.               *)
(***************************************************************************)
\* the text of line i: a header, then records of which two are the same
LineText(i) == IF i = 1 THEN "Account_Num|Situs_Address"
               ELSE IF i = 3 THEN "2|2 B ST" ELSE "1|1 A ST"

\* a file of n lines that opens or not; the errAt-th call of scanner.Scan
\* fails (0: none does)
RfFiles ==
    {[opens |-> o, lines |-> [i \in 1..n |-> LineText(i)], errAt |-> e,
      cpus |-> c] :
        o \in BOOLEAN, n \in 0..(MaxLines + 1), e \in 0..(MaxLines + 1),
        c \in 1..MaxWorkers}

ReadFileInit ==
    /\ layerFiles = <<>>
    /\ zoningFeatures = <<>>
    /\ initErr = ""
    /\ zoningPc = "ready"
    /\ lookup = NoLookup
    /\ propertyData = <<>>
    /\ uvCall = UvIdle
    /\ propertyData2024 = <<>>
    /\ dsCall = DsIdle
    /\ ExtrasIdle("none")
    /\ rfFile \in {f \in RfFiles : f.errAt <= Len(f.lines) + 1
                                  /\ (~f.opens => Len(f.lines) = 0 /\ f.errAt = 0
                                                  /\ f.cpus = 1)}
    /\ rfPc = "open"
    /\ rfScan = 0
    /\ rfCh = <<>>
    /\ rfClosed = FALSE
    /\ rfWorkers = <<>>
    /\ rfCalls = [i \in 1..Len(rfFile.lines) |-> <<>>]
    /\ rfErr = ""

\* scanner.Scan() has another line to return
ScanHasLine == rfScan < Len(rfFile.lines) /\ rfFile.errAt # rfScan + 1
\* scanner.Err() after Scan returned false
ScannerErr == IF rfFile.errAt = rfScan + 1 THEN "scan" ELSE ""

\* os.Open(path)
RfOpen ==
    /\ rfPc = "open"
    /\ IF rfFile.opens
       THEN rfPc' = "header" /\ rfErr' = rfErr
       ELSE rfPc' = "returned" /\ rfErr' = "open"
    /\ UNCHANGED <<rfFile, rfScan, rfCh, rfClosed, rfWorkers, rfCalls>>
    /\ UNCHANGED <<zvars, uvars, dvars, xvars>>

\* if !scanner.Scan() { return "file is empty" }; header := ...
RfHeader ==
    /\ rfPc = "header"
    /\ IF ScanHasLine
       THEN rfScan' = rfScan + 1 /\ rfPc' = "spawn" /\ rfErr' = rfErr
       ELSE rfScan' = rfScan /\ rfPc' = "returned" /\ rfErr' = "empty"
    /\ UNCHANGED <<rfFile, rfCh, rfClosed, rfWorkers, rfCalls>>
    /\ UNCHANGED <<zvars, uvars, dvars, xvars>>

\* linesCh := make(chan string, 4096); wg.Add(workers); go func() ... for
\* each worker
RfSpawn ==
    /\ rfPc = "spawn"
    /\ rfWorkers' = [w \in 1..rfFile.cpus |-> [pc |-> "recv", line |-> 0]]
    /\ rfPc' = "scan"
    /\ UNCHANGED <<rfFile, rfScan, rfCh, rfClosed, rfCalls, rfErr>>
    /\ UNCHANGED <<zvars, uvars, dvars, xvars>>

\* for scanner.Scan() { ... }: the next line, or the end of the loop
RfScan ==
    /\ rfPc = "scan"
    /\ IF ScanHasLine
       THEN rfScan' = rfScan + 1 /\ rfPc' = "send"
       ELSE rfScan' = rfScan /\ rfPc' = "close"
    /\ UNCHANGED <<rfFile, rfCh, rfClosed, rfWorkers, rfCalls, rfErr>>
    /\ UNCHANGED <<zvars, uvars, dvars, xvars>>

\* linesCh <- scanner.Text(): blocks while the queue is full
RfSend ==
    /\ rfPc = "send"
    /\ Len(rfCh) < QueueCap
    /\ rfCh' = Append(rfCh, [no |-> rfScan, text |-> rfFile.lines[rfScan]])
    /\ rfPc' = "scan"
    /\ UNCHANGED <<rfFile, rfScan, rfClosed, rfWorkers, rfCalls, rfErr>>
    /\ UNCHANGED <<zvars, uvars, dvars, xvars>>

\* a variant in which the queue is left open after the last line
RfCloseOmitted ==
    /\ rfPc = "close"
    /\ rfClosed' = FALSE
    /\ rfPc' = "wait"
    /\ UNCHANGED <<rfFile, rfScan, rfCh, rfWorkers, rfCalls, rfErr>>
    /\ UNCHANGED <<zvars, uvars, dvars, xvars>>

\* close(linesCh)
RfClose ==
    /\ rfPc = "close"
    /\ rfClosed' = TRUE
    /\ rfPc' = "wait"
    /\ UNCHANGED <<rfFile, rfScan, rfCh, rfWorkers, rfCalls, rfErr>>
    /\ UNCHANGED <<zvars, uvars, dvars, xvars>>

\* a variant in which the counter was set for one worker only
WgDoneByOne == \E w \in DOMAIN rfWorkers : rfWorkers[w].pc = "done"

\* the WaitGroup counter is zero: every worker has run its deferred wg.Done
WgDone == \A w \in DOMAIN rfWorkers : rfWorkers[w].pc = "done"

\* a variant that returns without waiting for the workers
RfWaitNoWait ==
    /\ rfPc = "wait"
    /\ rfErr' = ScannerErr
    /\ rfPc' = "returned"
    /\ UNCHANGED <<rfFile, rfScan, rfCh, rfClosed, rfWorkers, rfCalls>>
    /\ UNCHANGED <<zvars, uvars, dvars, xvars>>

\* wg.Wait(); return scanner.Err()
RfWait ==
    /\ rfPc = "wait"
    /\ WgDone
    /\ rfErr' = ScannerErr
    /\ rfPc' = "returned"
    /\ UNCHANGED <<rfFile, rfScan, rfCh, rfClosed, rfWorkers, rfCalls>>
    /\ UNCHANGED <<zvars, uvars, dvars, xvars>>

\* a worker: for line := range linesCh - a line is taken off the queue
RfRecv(w) ==
    /\ rfWorkers[w].pc = "recv"
    /\ rfCh # <<>>
    /\ rfWorkers' = [rfWorkers EXCEPT ![w] = [pc |-> "call", line |-> Head(rfCh).no]]
    /\ rfCh' = Tail(rfCh)
    /\ UNCHANGED <<rfFile, rfPc, rfScan, rfClosed, rfCalls, rfErr>>
    /\ UNCHANGED <<zvars, uvars, dvars, xvars>>

\* a worker: the record is built from the line and fn(rec) is called
RfCall(w) ==
    /\ rfWorkers[w].pc = "call"
    /\ rfCalls' = [rfCalls EXCEPT ![rfWorkers[w].line] = Append(@, w)]
    /\ rfWorkers' = [rfWorkers EXCEPT ![w] = [pc |-> "recv", line |-> 0]]
    /\ UNCHANGED <<rfFile, rfPc, rfScan, rfCh, rfClosed, rfErr>>
    /\ UNCHANGED <<zvars, uvars, dvars, xvars>>

\* a worker: the range loop ends on the closed, empty queue; wg.Done()
RfExit(w) ==
    /\ rfWorkers[w].pc = "recv"
    /\ rfCh = <<>>
    /\ rfClosed
    /\ rfWorkers' = [rfWorkers EXCEPT ![w] = [pc |-> "done", line |-> 0]]
    /\ UNCHANGED <<rfFile, rfPc, rfScan, rfCh, rfClosed, rfCalls, rfErr>>
    /\ UNCHANGED <<zvars, uvars, dvars, xvars>>

ReadFileNext ==
    \/ RfOpen \/ RfHeader \/ RfSpawn \/ RfScan \/ RfSend \/ RfClose \/ RfWait
    \/ \E w \in DOMAIN rfWorkers : RfRecv(w)
    \/ \E w \in DOMAIN rfWorkers : RfCall(w)
    \/ \E w \in DOMAIN rfWorkers : RfExit(w)

SpecReadFile == ReadFileInit /\ [][ReadFileNext]_vars

\* C20: when readFile returns without an error, fn has been called exactly
\* once, by one worker, for every line after the header; at no time has it
\* been called twice for a line, or for the header
C20_EachLineToExactlyOneWorker ==
    /\ \A i \in DOMAIN rfCalls : Len(rfCalls[i]) <= 1
    /\ rfCalls # <<>> => rfCalls[1] = <<>>
    /\ (rfPc = "returned" /\ rfErr = "")
          => \A i \in 2..Len(rfFile.lines) : Len(rfCalls[i]) = 1

\* a file of MaxLines records read to the end by two workers, each of which
\* called fn
C20_Witness ==
    /\ rfPc = "returned" /\ rfErr = ""
    /\ Len(rfFile.lines) = MaxLines + 1
    /\ \E i, j \in 2..Len(rfFile.lines) :
          rfCalls[i] # <<>> /\ rfCalls[j] # <<>> /\ rfCalls[i] # rfCalls[j]

\* ---------------------------------------------------------------------
\* readFile under a fair scheduler: the Go runtime runs every goroutine
\* that can take a step, the scanning goroutine and each worker alike

\* the goroutine that called readFile
RfProducer ==
    RfOpen \/ RfHeader \/ RfSpawn \/ RfScan \/ RfSend \/ RfClose \/ RfWait

\* the w-th worker goroutine
RfWorker(w) ==
    /\ w \in DOMAIN rfWorkers
    /\ (RfRecv(w) \/ RfCall(w) \/ RfExit(w))

SpecReadFileFair ==
    /\ ReadFileInit
    /\ [][ReadFileNext]_vars
    /\ WF_vars(RfProducer)
    /\ \A w \in 1..MaxWorkers : WF_vars(RfWorker(w))

\* every record line has been put on the queue
AllEnqueued == ~ScanHasLine /\ rfPc \notin {"header", "spawn", "send"}

\* C21: readFile returns in every interleaving of the scanning goroutine
\* and the workers; the queue is closed only once every line the scanner
\* yields has been enqueued, it stays closed, and when readFile returns
\* after starting its workers the queue is closed and empty and every
\* worker has left its loop
C21_ReadFileTerminates ==
    /\ <>(rfPc = "returned")
    /\ [](rfClosed => AllEnqueued)
    /\ [][rfClosed => rfClosed' /\ ~RfClose]_vars
    /\ []((rfPc = "returned" /\ rfWorkers # <<>>)
             => rfClosed /\ rfCh = <<>> /\ WgDone)

\* a file of MaxLines records has been read to the end by a single worker,
\* through a queue that holds fewer lines than the file has
C21_Witness ==
    /\ rfPc = "returned" /\ rfErr = ""
    /\ Len(rfFile.lines) = MaxLines + 1 /\ QueueCap < MaxLines
    /\ rfFile.cpus = 1
    /\ \A i \in 2..Len(rfFile.lines) : rfCalls[i] = <<1>>

(***************************************************************************)
(* loadDatasets (unnamed/part_001): the primary file, the supplemental     *)
(* file and the 2024 primary file are read one after the other with        *)
(* readFile; the callbacks run on the worker goroutines and combine the    *)
(* records in maps keyed by account number, each map under its mutex.      *)
(* A line is the tuple of its |-separated columns; of the Property fields  *)
(* the model keeps those below, the others are copied the same way.        *)
(***************************************************************************)
PrimaryHeader == <<"Account_Num", "Situs_Address", "Total_Value", "SubdivisionName">>
SupplementalHeader == <<"AccountNumber", "Latitude", "Condition", "SubdivisionName">>

\* rec[h] = strings.TrimSpace(cols[j]) for the header columns the line has;
\* a header name that occurs twice keeps its last column
recOf(header, cols) ==
    LET n == IF Len(cols) < Len(header) THEN Len(cols) ELSE Len(header)
        last(h) == CHOOSE j \in 1..n :
                      header[j] = h /\ \A k \in (j + 1)..n : header[k] # h
    IN  [h \in {header[j] : j \in 1..n} |-> TrimSpace(cols[last(h)])]

\* record[key]: the empty string for a key that is not in the map
Field(rec, key) == IF key \in DOMAIN rec THEN rec[key] ELSE <<>>

\* the Property a primary callback builds from its record
primaryProp(rec) ==
    [AccountNum |-> Field(rec, "Account_Num"),
     SitusAddress |-> Field(rec, "Situs_Address"),
     TotalValue |-> Field(rec, "Total_Value"),
     Subdivision |-> Field(rec, "SubdivisionName"),
     Latitude |-> <<>>,
     Condition |-> <<>>]

\* the values a supplemental callback reads from its record
supplementOf(rec) ==
    [Latitude |-> Field(rec, "Latitude"),
     Condition |-> Field(rec, "Condition"),
     Subdivision |-> Field(rec, "SubdivisionName")]

\* prop.Latitude = record["Latitude"] ... on the base record found
mergeProp(prop, sup) ==
    [prop EXCEPT !.Latitude = sup.Latitude,
                 !.Condition = sup.Condition,
                 !.Subdivision = sup.Subdivision]

\* m[acct] = prop
MapPut(m, acct, prop) ==
    [a \in (DOMAIN m) \cup {acct} |-> IF a = acct THEN prop ELSE m[a]]

\* for _, prop := range m { byAddress[normalize(prop.SitusAddress)] = prop }:
\* the order of the range is not defined, so of the records of one address
\* any may be the one that stays
AddressMaps(m) ==
    LET props == {m[a] : a \in DOMAIN m}
        keys == {normalize(p.SitusAddress) : p \in props}
    IN  {f \in [keys -> props] :
            \A k \in keys : normalize(f[k].SitusAddress) = k}

CbIdle == [pc |-> "idle", acct |-> <<>>, prop |-> <<>>]

\* which mutex guards the map of the pass being read
MuHolder == IF ldPass = "primary2024" THEN ldMu.y2024 ELSE ldMu.primary
SetMu(w) == IF ldPass = "primary2024" THEN [ldMu EXCEPT !.y2024 = w]
                                       ELSE [ldMu EXCEPT !.primary = w]

\* what readFile has before it opens file f
StartRead(f) ==
    /\ rfFile' = f
    /\ rfPc' = "open"
    /\ rfScan' = 0
    /\ rfCh' = <<>>
    /\ rfClosed' = FALSE
    /\ rfWorkers' = <<>>
    /\ rfCalls' = [i \in 1..Len(f.lines) |-> <<>>]
    /\ rfErr' = ""

\* fn(rec) begins on worker w: the account number is read from the record
\* and, in the primary passes, the Property is built
LdCbStart(w) ==
    /\ ldPass \in {"primary", "supplemental", "primary2024"}
    /\ rfWorkers[w].pc = "call"
    /\ ldCb[w].pc = "idle"
    /\ LET header == rfFile.lines[1]
           rec == recOf(header, rfFile.lines[rfWorkers[w].line])
       IN  ldCb' = [ldCb EXCEPT ![w] =
                IF ldPass = "supplemental"
                THEN [pc |-> "lock", acct |-> Field(rec, "AccountNumber"),
                      prop |-> supplementOf(rec)]
                ELSE [pc |-> "lock", acct |-> Field(rec, "Account_Num"),
                      prop |-> primaryProp(rec)]]
    /\ UNCHANGED <<ldPass, ldFiles, primaryByAcct, primary2024ByAcct, ldMu,
                   ldMerged, ldOut>>
    /\ UNCHANGED <<notLoad, rvars>>

\* a variant in which Lock does not wait for the holder
LdLockNoWait(w) ==
    /\ ldCb[w].pc = "lock"
    /\ ldMu' = SetMu(w)
    /\ ldCb' = [ldCb EXCEPT ![w].pc =
                  IF ldPass = "supplemental" THEN "lookup" ELSE "store"]
    /\ UNCHANGED <<ldPass, ldFiles, primaryByAcct, primary2024ByAcct,
                   ldMerged, ldOut>>
    /\ UNCHANGED <<notLoad, rvars>>

\* muPrimary.Lock() / mu2024.Lock(): waits while another worker holds it
LdLock(w) ==
    /\ ldCb[w].pc = "lock"
    /\ MuHolder = 0
    /\ ldMu' = SetMu(w)
    /\ ldCb' = [ldCb EXCEPT ![w].pc =
                  IF ldPass = "supplemental" THEN "lookup" ELSE "store"]
    /\ UNCHANGED <<ldPass, ldFiles, primaryByAcct, primary2024ByAcct,
                   ldMerged, ldOut>>
    /\ UNCHANGED <<notLoad, rvars>>

\* prop, ok := primaryByAcct[acct]; without a base record the callback
\* unlocks and returns, with one the fields are set on the copy
LdLookup(w) ==
    /\ ldCb[w].pc = "lookup"
    /\ ldCb' = [ldCb EXCEPT ![w] =
                  IF ldCb[w].acct \in DOMAIN primaryByAcct
                  THEN [pc |-> "store", acct |-> ldCb[w].acct,
                        prop |-> mergeProp(primaryByAcct[ldCb[w].acct],
                                           ldCb[w].prop)]
                  ELSE [ldCb[w] EXCEPT !.pc = "unlock"]]
    /\ UNCHANGED <<ldPass, ldFiles, primaryByAcct, primary2024ByAcct, ldMu,
                   ldMerged, ldOut>>
    /\ UNCHANGED <<notLoad, rvars>>

\* primaryByAcct[acct] = prop / primary2024ByAcct[acct] = prop
LdStore(w) ==
    /\ ldCb[w].pc = "store"
    /\ IF ldPass = "primary2024"
       THEN /\ primary2024ByAcct' =
                   MapPut(primary2024ByAcct, ldCb[w].acct, ldCb[w].prop)
            /\ UNCHANGED primaryByAcct
       ELSE /\ primaryByAcct' =
                   MapPut(primaryByAcct, ldCb[w].acct, ldCb[w].prop)
            /\ UNCHANGED primary2024ByAcct
    /\ ldMerged' = IF ldPass = "supplemental"
                   THEN ldMerged \cup {rfWorkers[w].line} ELSE ldMerged
    /\ ldCb' = [ldCb EXCEPT ![w].pc = "unlock"]
    /\ UNCHANGED <<ldPass, ldFiles, ldMu, ldOut>>
    /\ UNCHANGED <<notLoad, rvars>>

\* Unlock(), and fn returns to the worker's loop
LdUnlock(w) ==
    /\ ldCb[w].pc = "unlock"
    /\ ldMu' = SetMu(0)
    /\ ldCb' = [ldCb EXCEPT ![w] = CbIdle]
    /\ rfCalls' = [rfCalls EXCEPT ![rfWorkers[w].line] = Append(@, w)]
    /\ rfWorkers' = [rfWorkers EXCEPT ![w] = [pc |-> "recv", line |-> 0]]
    /\ UNCHANGED <<rfFile, rfPc, rfScan, rfCh, rfClosed, rfErr>>
    /\ UNCHANGED <<ldPass, ldFiles, primaryByAcct, primary2024ByAcct,
                   ldMerged, ldOut>>
    /\ UNCHANGED notLoad

\* readFile returned an error: return nil, nil, err
LdFail ==
    /\ ldPass \in {"primary", "supplemental", "primary2024"}
    /\ rfPc = "returned" /\ rfErr # ""
    /\ ldPass' = "returned"
    /\ ldOut' = [pc |-> "returned", err |-> rfErr,
                 byAddress |-> <<>>, byAddress2024 |-> <<>>]
    /\ UNCHANGED <<ldFiles, primaryByAcct, primary2024ByAcct, ldMu, ldCb,
                   ldMerged>>
    /\ UNCHANGED <<notLoad, rvars>>

\* the primary file is read: readFile(supplementalFile, ...) is called
LdAfterPrimary ==
    /\ ldPass = "primary"
    /\ rfPc = "returned" /\ rfErr = ""
    /\ ldPass' = "supplemental"
    /\ StartRead(ldFiles.supplemental)
    /\ UNCHANGED <<ldFiles, primaryByAcct, primary2024ByAcct, ldMu, ldCb,
                   ldMerged, ldOut>>
    /\ UNCHANGED notLoad

\* the supplemental file is read: byAddress is built and
\* readFile(primary2024File, ...) is called
LdAfterSupplemental ==
    /\ ldPass = "supplemental"
    /\ rfPc = "returned" /\ rfErr = ""
    /\ ldPass' = "primary2024"
    /\ \E f \in AddressMaps(primaryByAcct) :
          ldOut' = [pc |-> "running", err |-> "",
                    byAddress |-> f, byAddress2024 |-> <<>>]
    /\ StartRead(ldFiles.primary2024)
    /\ UNCHANGED <<ldFiles, primaryByAcct, primary2024ByAcct, ldMu, ldCb,
                   ldMerged>>
    /\ UNCHANGED notLoad

\* the 2024 file is read: byAddress2024 is built; return both maps
LdReturn ==
    /\ ldPass = "primary2024"
    /\ rfPc = "returned" /\ rfErr = ""
    /\ ldPass' = "returned"
    /\ \E f \in AddressMaps(primary2024ByAcct) :
          ldOut' = [ldOut EXCEPT !.pc = "returned", !.byAddress2024 = f]
    /\ UNCHANGED <<ldFiles, primaryByAcct, primary2024ByAcct, ldMu, ldCb,
                   ldMerged>>
    /\ UNCHANGED <<notLoad, rvars>>

\* -- the data files of the runs ----------------------------------------
\* a primary line: account, situs address, total value, subdivision
PrimaryA == << <<"1">>, <<"1", " ", "a">>, <<"1", "0", "0">>, <<"O">> >>
PrimaryB == << <<"2">>, <<"2", " ", "b">>, <<"2", "0", "0">>, <<"E">> >>
\* the account of PrimaryA again, padded, with other values
PrimaryA2 == << <<" ", "1">>, <<"1", " ", " ", "A">>, <<"9", "0">>, <<"E">> >>
\* another account at the address of PrimaryA
PrimaryC == << <<"3">>, <<"1", ",", " ", "A">>, <<"3", "0", "0">>, <<"O">> >>
\* an empty line: one empty column
EmptyLine == << <<>> >>

\* a supplemental line: account, latitude, condition, subdivision
SupplementA == << <<"1">>, <<"3", "2">>, <<"P">>, <<"O", "2">> >>
SupplementA2 == << <<"1", " ">>, <<"3", "3">>, <<"G">>, <<"E", "2">> >>
\* an account that no primary line has
SupplementX == << <<"9">>, <<"3", "4">>, <<"F">>, <<"X">> >>

DataFile(opens, header, records, errAt, cpus) ==
    [opens |-> opens,
     lines |-> IF opens THEN <<header>> \o records ELSE <<>>,
     errAt |-> errAt, cpus |-> cpus]

PrimaryFiles(c) ==
    {DataFile(TRUE, PrimaryHeader, recs, 0, c) :
        recs \in {<<PrimaryA, PrimaryB>>, <<PrimaryA, PrimaryA2>>,
                  <<PrimaryA, PrimaryC>>, <<EmptyLine, PrimaryB>>}}
    \cup {DataFile(TRUE, PrimaryHeader, <<PrimaryA, PrimaryB>>, 3, c),
          DataFile(FALSE, PrimaryHeader, <<>>, 0, c),
          [opens |-> TRUE, lines |-> <<>>, errAt |-> 0, cpus |-> c]}

SupplementalFiles(c) ==
    {DataFile(TRUE, SupplementalHeader, recs, 0, c) :
        recs \in {<<SupplementA, SupplementX>>, <<SupplementA, SupplementA2>>}}
    \cup {DataFile(FALSE, SupplementalHeader, <<>>, 0, c)}

Primary2024Files(c) ==
    {DataFile(TRUE, PrimaryHeader, <<PrimaryA>>, 0, c),
     [opens |-> TRUE, lines |-> <<>>, errAt |-> 0, cpus |-> c]}

LoadInit ==
    /\ layerFiles = <<>>
    /\ zoningFeatures = <<>>
    /\ initErr = ""
    /\ zoningPc = "ready"
    /\ lookup = NoLookup
    /\ propertyData = <<>>
    /\ uvCall = UvIdle
    /\ propertyData2024 = <<>>
    /\ dsCall = DsIdle
    /\ ExtrasIdle("load")
    /\ \E c \in 1..MaxWorkers :
          /\ ldFiles \in [primary : PrimaryFiles(c),
                          supplemental : SupplementalFiles(c),
                          primary2024 : Primary2024Files(c)]
          /\ ldCb = [w \in 1..c |-> CbIdle]
    /\ ldPass = "primary"
    /\ primaryByAcct = <<>>
    /\ primary2024ByAcct = <<>>
    /\ ldMu = [primary |-> 0, y2024 |-> 0]
    /\ ldMerged = {}
    /\ ldOut = [pc |-> "running", err |-> "", byAddress |-> <<>>,
                byAddress2024 |-> <<>>]
    /\ rfFile = ldFiles.primary
    /\ rfPc = "open"
    /\ rfScan = 0
    /\ rfCh = <<>>
    /\ rfClosed = FALSE
    /\ rfWorkers = <<>>
    /\ rfCalls = [i \in 1..Len(rfFile.lines) |-> <<>>]
    /\ rfErr = ""

LoadNext ==
    \/ RfOpen \/ RfHeader \/ RfSpawn \/ RfScan \/ RfSend \/ RfClose \/ RfWait
    \/ \E w \in DOMAIN rfWorkers : RfRecv(w)
    \/ \E w \in DOMAIN rfWorkers : RfExit(w)
    \/ \E w \in DOMAIN rfWorkers : LdCbStart(w)
    \/ \E w \in DOMAIN rfWorkers : LdLock(w)
    \/ \E w \in DOMAIN rfWorkers : LdLookup(w)
    \/ \E w \in DOMAIN rfWorkers : LdStore(w)
    \/ \E w \in DOMAIN rfWorkers : LdUnlock(w)
    \/ LdFail \/ LdAfterPrimary \/ LdAfterSupplemental \/ LdReturn

SpecLoad == LoadInit /\ [][LoadNext]_vars

\* -- what the data files say, read off the lines themselves -----------
RECURSIVE StripBlanks(_)
StripBlanks(s) ==
    IF s = <<>> THEN s
    ELSE IF Head(s) = " " THEN StripBlanks(Tail(s))
    ELSE IF s[Len(s)] = " " THEN StripBlanks(SubSeq(s, 1, Len(s) - 1))
    ELSE s

\* the k-th column of a line, stripped; the empty string if it has none
Column(line, k) == IF k <= Len(line) THEN StripBlanks(line[k]) ELSE <<>>

\* the data lines of a file
DataLines(f) == {f.lines[i] : i \in 2..Len(f.lines)}

AccountsOf(f) == {Column(l, 1) : l \in DataLines(f)}

\* the records an account may have once the primary lines with that account
\* are stored and any of the supplemental lines with it are merged: the
\* base fields all of one primary line, the merged fields all of one
\* supplemental line or none
EntriesFor(a) ==
    LET bases == {l \in DataLines(ldFiles.primary) : Column(l, 1) = a}
        sups == {l \in DataLines(ldFiles.supplemental) : Column(l, 1) = a}
    IN  {[AccountNum |-> a, SitusAddress |-> Column(b, 2),
          TotalValue |-> Column(b, 3), Subdivision |-> Column(b, 4),
          Latitude |-> <<>>, Condition |-> <<>>] : b \in bases}
        \cup
        {[AccountNum |-> a, SitusAddress |-> Column(b, 2),
          TotalValue |-> Column(b, 3), Subdivision |-> Column(s, 4),
          Latitude |-> Column(s, 2), Condition |-> Column(s, 3)] :
             b \in bases, s \in sups}

\* worker w is between Lock and Unlock
InCritical(w) == ldCb[w].pc \in {"lookup", "store", "unlock"}

LoadReturnedMaps == ldPass = "returned" /\ ldOut.err = ""

\* C22: a worker reads or writes an account map only while it holds the
\* map's mutex, so at most one worker is at a map access; every stored
\* record is whole (one primary line, merged with one supplemental line or
\* with none); and when loadDatasets returns its maps, each map has exactly
\* the distinct account numbers of its file as keys and an account with a
\* supplemental line has a merged record
C22_MapAccessUnderMutex ==
    /\ \A w \in DOMAIN ldCb : InCritical(w) => MuHolder = w
    /\ \A v, w \in DOMAIN ldCb : InCritical(v) /\ InCritical(w) => v = w
    /\ \A a \in DOMAIN primaryByAcct : primaryByAcct[a] \in EntriesFor(a)
    /\ LoadReturnedMaps =>
          /\ DOMAIN primaryByAcct = AccountsOf(ldFiles.primary)
          /\ DOMAIN primary2024ByAcct = AccountsOf(ldFiles.primary2024)
          /\ \A a \in DOMAIN primaryByAcct :
                a \in AccountsOf(ldFiles.supplemental)
                   => primaryByAcct[a].Latitude # <<>>

\* both maps are returned by a run with two workers in which both
\* supplemental lines, of the same account, were merged into its record
C22_Witness ==
    /\ LoadReturnedMaps
    /\ Len(ldCb) = 2
    /\ ldMerged = {2, 3}
    /\ Cardinality(DOMAIN primaryByAcct) = 2

\* the supplemental lines whose account has a primary line
MergeableLines ==
    {i \in 2..Len(ldFiles.supplemental.lines) :
        Column(ldFiles.supplemental.lines[i], 1) \in AccountsOf(ldFiles.primary)}

\* C26: readFile(supplementalFile) is called only when every callback of
\* the primary pass has returned and every primary account is in the map;
\* during the supplemental pass no base record is missing; and once the
\* supplemental file is read, exactly the supplemental lines whose account
\* occurs in the primary file have been merged into their base records
C26_SupplementalAfterPrimaryCallbacks ==
    /\ [][(ldPass = "primary" /\ ldPass' = "supplemental")
            => /\ \A i \in 2..Len(rfFile.lines) : Len(rfCalls[i]) = 1
               /\ \A w \in DOMAIN ldCb : ldCb[w].pc = "idle"
               /\ \A w \in DOMAIN rfWorkers : rfWorkers[w].pc = "done"
               /\ DOMAIN primaryByAcct = AccountsOf(ldFiles.primary)]_vars
    /\ [](ldPass = "supplemental"
            => AccountsOf(ldFiles.primary) \subseteq DOMAIN primaryByAcct)
    /\ []((ldPass = "primary2024" \/ LoadReturnedMaps)
            => /\ ldMerged = MergeableLines
               /\ \A i \in MergeableLines :
                     LET a == Column(ldFiles.supplemental.lines[i], 1)
                     IN  primaryByAcct[a].Latitude # <<>>)

\* the maps are returned by a run with two workers on two primary
\* accounts, with one supplemental line merged and one, of an account that
\* has no primary line, left out
C26_Witness ==
    /\ LoadReturnedMaps
    /\ Len(ldCb) = 2
    /\ ldMerged = {2}
    /\ Len(ldFiles.supplemental.lines) = 3
    /\ AccountsOf(ldFiles.primary) = {<<"1">>, <<"2">>}

(***************************************************************************)
(* The saved leads.  cmd/leads.go keeps one address per line in            *)
(* data/leads.csv; unnamed/part_002 keeps them as bullets of the           *)
(* Unscreened section of the kanban board Leads.md and writes a detail     *)
(* file per lead.  A build has one of the two.  A file is the sequence of  *)
(* the pieces between its newlines (strings.Split(content, "\n")), so a    *)
(* content that ends in a newline has an empty last piece.                 *)
(***************************************************************************)
MaxSaves == 3            \* saveLead calls in a run

HasPrefix(s, p) == Len(s) >= Len(p) /\ SubSeq(s, 1, Len(p)) = p
HasSuffix(s, p) == Len(s) >= Len(p) /\ SubSeq(s, Len(s) - Len(p) + 1, Len(s)) = p
TrimPrefix(s, p) == IF HasPrefix(s, p) THEN SubSeq(s, Len(p) + 1, Len(s)) ELSE s
TrimSuffix(s, p) == IF HasSuffix(s, p) THEN SubSeq(s, 1, Len(s) - Len(p)) ELSE s

Chars_header == <<"#", "#", " ">>
Chars_Unscreened == <<"U", "n", "s", "c", "r", "e", "e", "n", "e", "d">>
Chars_Done == <<"D", "o", "n", "e">>

\* the lines bufio.Scanner returns for a file: the pieces, without the
\* empty piece behind a final newline
ScanLines(store) ==
    IF ~store.exists \/ store.pieces = <<>> THEN <<>>
    ELSE IF store.pieces[Len(store.pieces)] = <<>>
         THEN SubSeq(store.pieces, 1, Len(store.pieces) - 1)
         ELSE store.pieces

\* the content with text and a newline written behind it
AppendLine(store, text) ==
    LET old == IF store.exists /\ store.pieces # <<>> THEN store.pieces ELSE << <<>> >>
        n == Len(old)
    IN  [exists |-> TRUE,
         pieces |-> SubSeq(old, 1, n - 1) \o <<old[n] \o text, <<>> >>]

\* the content made of the lines written, each with its newline
WriteLines(lines) == [exists |-> TRUE, pieces |-> lines \o << <<>> >>]

\* extractAddressFromBullet (unnamed/part_002)
extractAddressFromBullet(bullet) ==
    LET l1 == TrimSpace(TrimPrefix(bullet, <<"-">>))
        l2 == IF \/ HasPrefix(l1, <<"[", " ", "]">>)
                 \/ HasPrefix(l1, <<"[", "x", "]">>)
                 \/ HasPrefix(l1, <<"[", "X", "]">>)
              THEN TrimSpace(SubSeq(l1, 4, Len(l1))) ELSE l1
    IN  IF HasPrefix(l2, <<"[", "[">>) /\ HasSuffix(l2, <<"]", "]">>)
        THEN TrimSpace(TrimSuffix(TrimPrefix(l2, <<"[", "[">>), <<"]", "]">>))
        ELSE TrimSpace(l2)

\* loadLeads (cmd/leads.go): the trimmed non-empty lines
RECURSIVE csvAddresses(_)
csvAddresses(lines) ==
    IF lines = <<>> THEN <<>>
    ELSE LET addr == TrimSpace(Head(lines))
         IN  (IF addr # <<>> THEN <<addr>> ELSE <<>>) \o csvAddresses(Tail(lines))

\* loadLeads (unnamed/part_002): the scanning loop from line i on
RECURSIVE boardAddresses(_, _, _)
boardAddresses(lines, i, inUnscreened) ==
    IF i > Len(lines) THEN <<>>
    ELSE LET line == TrimSpace(lines[i])
             isHeader == HasPrefix(line, Chars_header)
         IN  IF isHeader /\ EqualFold(TrimSpace(TrimPrefix(line, Chars_header)),
                                      Chars_Unscreened)
             THEN boardAddresses(lines, i + 1, TRUE)
             ELSE IF isHeader /\ inUnscreened THEN <<>>
             ELSE IF ~inUnscreened THEN boardAddresses(lines, i + 1, inUnscreened)
             ELSE LET addr == IF HasPrefix(line, <<"-">>)
                              THEN extractAddressFromBullet(line) ELSE <<>>
                  IN  (IF addr # <<>> THEN <<addr>> ELSE <<>>)
                      \o boardAddresses(lines, i + 1, inUnscreened)

\* loadLeads of the build
loadLeads(kind, store) ==
    IF kind = "csv" THEN csvAddresses(ScanLines(store))
    ELSE boardAddresses(ScanLines(store), 1, FALSE)

\* a variant that compares the addresses as they are written
isDuplicateExact(existing, address) ==
    \E i \in DOMAIN existing : existing[i] = address

\* for _, addr := range existing { if normalize(addr) == normNew ... }
isDuplicate(existing, address) ==
    \E i \in DOMAIN existing : normalize(existing[i]) = normalize(address)

\* the bullet saveLead inserts
BulletOf(address) ==
    <<"-", " ", "[", " ", "]", " ", "[", "[">> \o address \o <<"]", "]">>

\* saveLead (unnamed/part_002): the loop over the lines of the board from
\* line i on; out holds the lines written so far
RECURSIVE insertFrom(_, _, _, _, _, _)
insertFrom(lines, i, inserted, inUnscreened, out, bullet) ==
    IF i > Len(lines)
    THEN IF ~inserted /\ ~inUnscreened
         THEN out \o << <<>>, Chars_header \o Chars_Unscreened, <<>>, bullet>>
         ELSE out
    ELSE LET line == lines[i]
             trimmed == TrimSpace(line)
             isHeader == HasPrefix(trimmed, Chars_header)
         IN  IF isHeader /\ EqualFold(TrimPrefix(trimmed, Chars_header),
                                      Chars_Unscreened)
             THEN insertFrom(lines, i + 1, inserted, TRUE,
                             Append(out, line), bullet)
             ELSE LET before == isHeader /\ inUnscreened /\ ~inserted
                      ins == inserted \/ before
                      inU == inUnscreened /\ ~before
                      out1 == IF before THEN Append(out, bullet) ELSE out
                  IN  IF inU /\ i = Len(lines) /\ ~ins
                      THEN insertFrom(lines, i + 1, TRUE, inU,
                                      out1 \o <<line, bullet>>, bullet)
                      ELSE insertFrom(lines, i + 1, ins, inU,
                                      Append(out1, line), bullet)

\* the board saveLead writes for a new address
boardWith(store, address) ==
    LET bullet == BulletOf(address)
        empty == \/ ~store.exists
                 \/ store.pieces = <<>>
                 \/ store.pieces = << <<>> >>
    IN  IF empty
        THEN WriteLines(<<Chars_header \o Chars_Unscreened, <<>>, bullet, <<>> >>)
        ELSE WriteLines(insertFrom(store.pieces, 1, FALSE, FALSE, <<>>, bullet))

\* sanitizeFileName (unnamed/part_002)
InvalidInNames == {"/", "\\", ":", "*", "?", "\"", "<", ">", "|"}
sanitizeFileName(name) ==
    [i \in 1..Len(name) |-> IF name[i] \in InvalidInNames THEN "_" ELSE name[i]]

\* createLeadDetailFile: the detail file is written unless one of that
\* name exists; fails says that the write fails
detailsWith(details, situs, fails) ==
    LET name == sanitizeFileName(situs) \o <<".", "m", "d">>
    IN  IF name \in details THEN [details |-> details, err |-> ""]
        ELSE IF fails THEN [details |-> details, err |-> "write"]
        ELSE [details |-> details \cup {name}, err |-> ""]

\* saveLead(address) of cmd/leads.go
SaveLeadCsv ==
    /\ leadsKind = "csv"
    /\ leadCall.n < MaxSaves
    /\ \E address \in {<<"1", " ", "a">>, <<"1", " ", " ", "A", ",">>,
                       <<"2", "/", "b">>, <<" ">>} :
          LET existing == loadLeads("csv", leadsStore)
          IN  /\ leadsStore' = IF isDuplicate(existing, address) THEN leadsStore
                               ELSE AppendLine(leadsStore, address)
              /\ leadCall' = [n |-> leadCall.n + 1, address |-> address,
                              err |-> "", before |-> existing]
    /\ UNCHANGED <<leadsKind, leadsDetails>>
    /\ UNCHANGED notLeads

\* saveLead(prop) of unnamed/part_002, for a property with the given
\* SitusAddress
SaveLeadBoard ==
    /\ leadsKind = "board"
    /\ leadCall.n < MaxSaves
    /\ \E situs \in {<<"1", " ", "a">>, <<"1", " ", " ", "A", ",">>,
                     <<"2", "/", "b">>, <<" ">>}, fails \in BOOLEAN :
          LET address == TrimSpace(situs)
              existing == loadLeads("board", leadsStore)
              made == detailsWith(leadsDetails, situs, fails)
          IN  IF address = <<>>
              THEN /\ leadCall' = [n |-> leadCall.n + 1, address |-> situs,
                                   err |-> "empty", before |-> <<>>]
                   /\ UNCHANGED <<leadsStore, leadsDetails>>
              ELSE /\ leadsStore' = IF isDuplicate(existing, address) THEN leadsStore
                                    ELSE boardWith(leadsStore, address)
                   /\ leadsDetails' = made.details
                   /\ leadCall' = [n |-> leadCall.n + 1, address |-> situs,
                                   err |-> made.err, before |-> existing]
    /\ UNCHANGED leadsKind
    /\ UNCHANGED notLeads

\* -- the lead files a run starts from ---------------------------------
LineUnscreened == Chars_header \o Chars_Unscreened
\* a header that loadLeads takes for Unscreened and saveLead does not
LineUnscreenedWide == <<"#", "#", " ", " ">> \o Chars_Unscreened
LineDone == Chars_header \o Chars_Done
BulletB == BulletOf(<<"2", "/", "b">>)
BulletZ == BulletOf(<<"9", " ", "z">>)

Missing == [exists |-> FALSE, pieces |-> <<>>]
FileOf(pieces) == [exists |-> TRUE, pieces |-> pieces]

Boards ==
    {Missing,
     FileOf(<< <<>> >>),
     FileOf(<<LineDone, BulletZ, <<>> >>),
     FileOf(<<LineUnscreened, BulletB, <<>> >>),
     FileOf(<<LineUnscreened, BulletB>>),
     FileOf(<<LineUnscreened, <<>> >>),
     FileOf(<<LineUnscreened>>),
     FileOf(<<LineDone, BulletZ, LineUnscreened>>),
     FileOf(<<LineUnscreened, BulletB, LineDone, BulletZ, <<>> >>),
     FileOf(<<LineUnscreenedWide, BulletB, LineDone, BulletZ, <<>> >>)}

CsvFiles ==
    {Missing,
     FileOf(<< <<>> >>),
     FileOf(<< <<" ", "2", "/", "B", " ">>, <<>>, <<"9", " ", "z">>, <<>> >>)}

LeadsInit ==
    /\ layerFiles = <<>>
    /\ zoningFeatures = <<>>
    /\ initErr = ""
    /\ zoningPc = "ready"
    /\ lookup = NoLookup
    /\ propertyData = <<>>
    /\ uvCall = UvIdle
    /\ propertyData2024 = <<>>
    /\ dsCall = DsIdle
    /\ ReadFileIdle
    /\ ExtrasIdle("leads")
    /\ leadsKind \in {"csv", "board"}
    /\ leadsStore \in IF leadsKind = "csv" THEN CsvFiles ELSE Boards
    /\ leadsDetails = {}
    /\ leadCall = [n |-> 0, address |-> <<>>, err |-> "", before |-> <<>>]

LeadsNext == SaveLeadCsv \/ SaveLeadBoard

SpecLeads == LeadsInit /\ [][LeadsNext]_vars

\* the leads loadLeads returns now
StoredLeads == loadLeads(leadsKind, leadsStore)

SameAddress(a, b) == normalize(a) = normalize(b)

\* the last saveLead call came back without an error
SavedOk == leadCall.n > 0 /\ leadCall.err = ""

\* C23: the stored lead list never holds two addresses that are equal
\* under normalize, and a saveLead call for an address whose normalized
\* form was stored already leaves the list as it was
C23_NoTwoLeadsEqualUnderNormalize ==
    /\ \A i, j \in DOMAIN StoredLeads :
          i # j => ~SameAddress(StoredLeads[i], StoredLeads[j])
    /\ (SavedOk /\ \E i \in DOMAIN leadCall.before :
                      SameAddress(leadCall.before[i], leadCall.address))
          => StoredLeads = leadCall.before

\* on the board, an address was saved and an address that differs from it
\* in case, blanks and a comma was saved after it, and the list is as before
C23_Witness ==
    /\ leadsKind = "board"
    /\ SavedOk
    /\ leadCall.address = <<"1", " ", " ", "A", ",">>
    /\ <<"1", " ", "a">> \in {StoredLeads[i] : i \in DOMAIN StoredLeads}
    /\ StoredLeads = leadCall.before

\* C27: when saveLead of the board returns nil for a property with a
\* non-empty address, loadLeads then returns a list with an address equal
\* to it under normalize, whatever the board held before
C27_SavedLeadIsLoaded ==
    (leadsKind = "board" /\ SavedOk /\ TrimSpace(leadCall.address) # <<>>)
       => \E i \in DOMAIN StoredLeads :
             SameAddress(StoredLeads[i], leadCall.address)

(***************************************************************************)
(* The projection (cmd/stateplane.go): WGS-84 degrees to Texas             *)
(* North-Central Lambert feet.  The program computes in float64; the model *)
(* computes in decimal fixed point, an angle or a ratio as a whole number  *)
(* of millionths and a length as a whole number of feet, each operation    *)
(* rounded to the nearest.  Sine, cosine, logarithm and exponential are    *)
(* summed from their series.  A constant expression is evaluated like the  *)
(* same expression at run time.  Differences below the resolution (a       *)
(* millionth of a radian, some tens of feet) are not seen by the model.    *)
(***************************************************************************)
FxBase == 1000
FxOne == FxBase * FxBase          \* the number 1
FxTerms == 12                     \* terms summed of a series, and Newton steps

Sgn(x) == IF x < 0 THEN -1 ELSE 1

\* a / b for integers, rounded to the nearest
DivRound(a, b) == Sgn(a) * Sgn(b) * ((Abs(a) + Abs(b) \div 2) \div Abs(b))

\* the product of two fixed-point numbers (or of a length and a number)
FxMul(a, b) ==
    LET a1 == Abs(a) \div FxBase
        a0 == Abs(a) % FxBase
        b1 == Abs(b) \div FxBase
        b0 == Abs(b) % FxBase
    IN  Sgn(a) * Sgn(b) *
        (a1 * b1 + DivRound(a1 * b0 + a0 * b1 + DivRound(a0 * b0, FxBase), FxBase))

\* the quotient of two fixed-point numbers (or of two lengths, or a length
\* by a number)
FxDiv(a, b) ==
    LET d == Abs(b)
        q == Abs(a) \div d
        r1 == (Abs(a) % d) * FxBase
        r2 == (r1 % d) * FxBase
    IN  Sgn(a) * Sgn(b) * (q * FxOne + (r1 \div d) * FxBase + DivRound(r2, d))

MathPi == 3141593

\* math.Sin: x - x^3/3! + x^5/5! - ...
RECURSIVE SinSeries(_, _, _)
SinSeries(term, x2, k) ==
    IF k > FxTerms \/ term = 0 THEN 0
    ELSE term + SinSeries(-DivRound(FxMul(term, x2), (2 * k) * (2 * k + 1)), x2, k + 1)
MathSin(x) == SinSeries(x, FxMul(x, x), 1)

\* math.Cos: 1 - x^2/2! + x^4/4! - ...
RECURSIVE CosSeries(_, _, _)
CosSeries(term, x2, k) ==
    IF k > FxTerms \/ term = 0 THEN 0
    ELSE term + CosSeries(-DivRound(FxMul(term, x2), (2 * k - 1) * (2 * k)), x2, k + 1)
MathCos(x) == CosSeries(FxOne, FxMul(x, x), 1)

MathTan(x) == FxDiv(MathSin(x), MathCos(x))

\* math.Log for x > 0: 2 (z + z^3/3 + z^5/5 + ...), z = (x - 1)/(x + 1)
RECURSIVE LogSeries(_, _, _)
LogSeries(power, z2, k) ==
    IF k > FxTerms \/ power = 0 THEN 0
    ELSE DivRound(power, 2 * k - 1) + LogSeries(FxMul(power, z2), z2, k + 1)
MathLog(x) ==
    LET z == FxDiv(x - FxOne, x + FxOne)
    IN  2 * LogSeries(z, FxMul(z, z), 1)

\* e^w: 1 + w + w^2/2! + ...
RECURSIVE ExpSeries(_, _, _)
ExpSeries(term, w, k) ==
    IF k > FxTerms \/ term = 0 THEN 0
    ELSE term + ExpSeries(DivRound(FxMul(term, w), k), w, k + 1)
MathExp(w) == ExpSeries(FxOne, w, 1)

\* math.Pow(x, y) for x >= 0
MathPow(x, y) == IF x = 0 THEN 0 ELSE MathExp(FxMul(y, MathLog(x)))

\* math.Sqrt for x > 0, by Newton's iteration
RECURSIVE SqrtFrom(_, _, _)
SqrtFrom(x, y, k) ==
    IF k > FxTerms THEN y
    ELSE SqrtFrom(x, DivRound(y + FxDiv(x, y), 2), k + 1)
MathSqrt(x) == IF x = 0 THEN 0 ELSE SqrtFrom(x, FxOne, 1)

\* the constants of cmd/stateplane.go: feet, and millionths of a degree
spFalseEasting == 1968500
spFalseNorthing == 6561667
phi0Deg == 31666667
phi1Deg == 32133333
phi2Deg == 33966667
lon0Deg == -98500000
ftPerMeter == 3280833
semiMajorM == 6378137
e2 == 6694

\* deg * math.Pi / 180
Radians(deg) == DivRound(FxMul(deg, MathPi), 180)

\* init: m := func(phi float64) float64
spM(phi) ==
    FxDiv(MathCos(phi),
          MathSqrt(FxOne - FxMul(FxMul(e2, MathSin(phi)), MathSin(phi))))

\* init: t := func(phi float64) float64
spT(phi) ==
    LET e == MathSqrt(e2)
    IN  FxDiv(MathTan(DivRound(MathPi, 4) - DivRound(phi, 2)),
              MathPow(FxDiv(FxOne - FxMul(e, MathSin(phi)),
                            FxOne + FxMul(e, MathSin(phi))),
                      DivRound(e, 2)))

\* init(): the cone constant n, the scale F and the radius of the origin
spInit ==
    LET phi1 == Radians(phi1Deg)
        phi2 == Radians(phi2Deg)
        phi0 == Radians(phi0Deg)
        m1 == spM(phi1)
        m2 == spM(phi2)
        t1 == spT(phi1)
        t2 == spT(phi2)
        t0 == spT(phi0)
        n == FxDiv(MathLog(FxDiv(m1, m2)), MathLog(FxDiv(t1, t2)))
        aFt == FxMul(semiMajorM, ftPerMeter)
        F == FxDiv(FxMul(aFt, m1), FxMul(n, MathPow(t1, n)))
    IN  [set |-> TRUE, n |-> n, F |-> F, rho0 |-> FxMul(F, MathPow(t0, n))]

\* wgs84ToTxNC(latDeg, lonDeg) with the package variables in par
wgs84ToTxNC(par, latDeg, lonDeg) ==
    LET phi == Radians(latDeg)
        lambda == Radians(lonDeg)
        lambda0 == Radians(lon0Deg)
        t == MathTan(DivRound(MathPi, 4) - DivRound(phi, 2))
        rho == FxMul(par.F, MathPow(t, par.n))
        theta == FxMul(par.n, lambda - lambda0)
    IN  [northingFt |-> par.rho0 - FxMul(rho, MathCos(theta)) + spFalseNorthing,
         eastingFt |-> FxMul(rho, MathSin(theta)) + spFalseEasting]

\* the latitudes and longitudes of the runs: the origin, the standard
\* parallels, the central meridian, and points of the county around them
ProjLatitudes ==
    {phi0Deg, phi1Deg, phi2Deg, 32000000, 32500000, 32755500, 33000000,
     33500000}
ProjLongitudes ==
    {lon0Deg, -99500000, -99000000, -98000000, -97500000, -97330800,
     -97000000, -96500000}

ProjInit ==
    /\ layerFiles = <<>>
    /\ zoningFeatures = <<>>
    /\ initErr = ""
    /\ zoningPc = "ready"
    /\ lookup = NoLookup
    /\ propertyData = <<>>
    /\ uvCall = UvIdle
    /\ propertyData2024 = <<>>
    /\ dsCall = DsIdle
    /\ ReadFileIdle
    /\ ExtrasIdle("proj")
    /\ spParams = [set |-> FALSE, n |-> 0, F |-> 0, rho0 |-> 0]
    /\ \E lat \in ProjLatitudes, lon \in ProjLongitudes :
          spCall = [pc |-> "start", latDeg |-> lat, lonDeg |-> lon,
                    northingFt |-> 0, eastingFt |-> 0]

\* the package is initialised: init() runs before main
StatePlaneInit ==
    /\ spCall.pc = "start"
    /\ spParams' = spInit
    /\ spCall' = [spCall EXCEPT !.pc = "ready"]
    /\ UNCHANGED notProj

\* a coordinate is projected
Wgs84ToTxNC ==
    /\ spCall.pc = "ready"
    /\ LET r == wgs84ToTxNC(spParams, spCall.latDeg, spCall.lonDeg)
       IN  spCall' = [spCall EXCEPT !.pc = "returned",
                                    !.northingFt = r.northingFt,
                                    !.eastingFt = r.eastingFt]
    /\ UNCHANGED spParams
    /\ UNCHANGED notProj

ProjNext == StatePlaneInit \/ Wgs84ToTxNC

SpecProj == ProjInit /\ [][ProjNext]_vars

\* C24: the origin of the projection is mapped to the false northing and
\* the false easting, and every point of the central meridian to the false
\* easting
C24_OriginAndCentralMeridian ==
    spCall.pc = "returned" =>
       /\ (spCall.latDeg = phi0Deg /\ spCall.lonDeg = lon0Deg)
             => /\ spCall.northingFt = spFalseNorthing
                /\ spCall.eastingFt = spFalseEasting
       /\ spCall.lonDeg = lon0Deg => spCall.eastingFt = spFalseEasting

(***************************************************************************)
(* The bounding-box test of findZoningAttributes as an optimisation.       *)
(***************************************************************************)
\* the search without the bounding-box test: every ring of every polygon
\* from index k on is ray-cast, in load order
RECURSIVE SearchEveryRing(_, _, _)
SearchEveryRing(lat, lon, k) ==
    IF k > Len(zoningFeatures) THEN [attrs |-> NilAttrs, found |-> FALSE]
    ELSE IF \E r \in 1..Len(zoningFeatures[k].Parts) :
               pointInPolygon(lat, lon, zoningFeatures[k].Parts[r])
         THEN [attrs |-> zoningFeatures[k].Attrs, found |-> TRUE]
         ELSE SearchEveryRing(lat, lon, k + 1)

\* the point lies outside the cached box of polygon z
OutsideBox(lat, lon, z) ==
    \/ lat.v < z.MinLat \/ lat.v > z.MaxLat
    \/ lon.v < z.MinLon \/ lon.v > z.MaxLon

\* C25: for a finite query point findZoningAttributes returns what the
\* search without the bounding-box test returns
C25_BBoxTestKeepsTheAnswer ==
    FiniteLookup =>
        LET r == SearchEveryRing(lookup.lat, lookup.lon, 1)
        IN  lookup.found = r.found /\ lookup.attrs = r.attrs

\* a finite point was found in the second polygon after the box of the
\* first one rejected it
C25_Witness ==
    /\ FiniteLookup
    /\ lookup.found
    /\ Len(zoningFeatures) = 2
    /\ OutsideBox(lookup.lat, lookup.lon, zoningFeatures[1])
    /\ lookup.attrs = zoningFeatures[2].Attrs
    /\ zoningFeatures[2].Attrs # zoningFeatures[1].Attrs

(***************************************************************************)
(* The candidate among its own neighbours.                                 *)
(***************************************************************************)
\* the rows of the universe that are the candidate p itself
OwnRows(p, universe) == {j \in 1..Len(universe) : universe[j] = p}

\* the other usable rows of the universe at most 0.1 mile from p
OtherComps(p, universe) == CompsOf(p, universe) \ OwnRows(p, universe)

\* C28: a candidate that is a row of the universe is one of its own
\* neighbours: its improvement value is among the neighbour values, so the
\* neighbour count is the number of its own rows plus the other usable rows
\* within 0.1 mile, the neighbour total is its own value plus theirs, and a
\* returned record carries that count and the mean over it.
C28_CandidateIsItsOwnNeighbour ==
    (uvCall.pc = "shown" /\ ~uvCall.err) =>
        \A k \in 1..Len(uvCall.candidates) :
            LET p == uvCall.candidates[k]
                own == OwnRows(p, uvCall.universe)
                others == OtherComps(p, uvCall.universe)
                count == Cardinality(own) + Cardinality(others)
                total == Cardinality(own) * ValOf(p) + TotalOf(others, uvCall.universe)
            IN (~uvCall.comps[k].skipped /\ own # {}) =>
                 /\ \E i \in 1..Len(uvCall.comps[k].vals) :
                        uvCall.comps[k].vals[i] = ValOf(p)
                 /\ Len(uvCall.comps[k].vals) = count
                 /\ SumVals(uvCall.comps[k].vals, 1).num = total
                 /\ \A i \in 1..Len(uvCall.results) :
                        uvCall.results[i].Property = p =>
                            /\ uvCall.results[i].NeighborCount = count
                            /\ uvCall.results[i].Mean.num * count
                                  = total * uvCall.results[i].Mean.den

\* a candidate with only two other neighbours is returned with a neighbour
\* count of 3: it is analysed because it counts itself
C28_Witness ==
    /\ uvCall.pc = "shown"
    /\ ~uvCall.err
    /\ \E i \in 1..Len(uvCall.results) :
          LET p == uvCall.results[i].Property
          IN /\ Cardinality(OwnRows(p, uvCall.universe)) = 1
             /\ Cardinality(OtherComps(p, uvCall.universe)) = 2
             /\ uvCall.results[i].NeighborCount = 3

(***************************************************************************)
(* What the distress filter returns.                                       *)
(***************************************************************************)
\* C29 (as claimed): every returned parcel has a parseable total value, a
\* living area greater than 0 and a finite price ratio against a group mean
\* price per square foot greater than 0; a parcel with a negative living
\* area, or of a group in which no member contributed a price, is never
\* returned.
C29_ReturnedHaveSoundPriceRatio ==
    DsDone =>
        \A i \in 1..Len(dsCall.results) :
            LET r == dsCall.results[i]
                G == GroupOf(dsCall.props, dsCall.sub)
            IN /\ parseDollar(r.Property.TotalValue).ok
               /\ parseDollar(r.Property.LivingArea).ok
               /\ parseDollar(r.Property.LivingArea).v > 0
               /\ r.PriceRatio.k = "fin"
               /\ MeanPrice(dsCall.props, dsCall.sub).num > 0
               /\ PricedIn(dsCall.props, G) # {}

(***************************************************************************)
(* The interactive lists: interactiveSelect (cmd/zoning.go) and            *)
(* interactiveLargeLand (cmd/large_land.go).                               *)
(*                                                                         *)
(* The terminal is in raw mode and delivers the bytes of a key press       *)
(* together; the bufio reader of the list keeps what one pass of the loop  *)
(* leaves unread.  A byte is its number: 27 ESC, 91 '[', 65..68 'A'..'D',  *)
(* 13 and 10 Enter, 3 Ctrl-C, 0 and 224 the prefix of a Windows console    *)
(* arrow, 72 80 75 77 its second byte for up, down, left and right.        *)
(***************************************************************************)
pageSize == 20
MaxResults == 41         \* entries of a list

\* what one read of the terminal can deliver; the empty chunk is a read error
KeyChunks ==
    {<<27, 91, 65>>, <<27, 91, 66>>, <<27, 91, 67>>, <<27, 91, 68>>,
     <<0, 72>>, <<224, 80>>, <<224, 75>>, <<0, 77>>, <<224, 13>>, <<224>>,
     <<13>>, <<10>>, <<3>>, <<27>>,
     \* other keys: a letter, ESC O, a cut-off and an unknown CSI sequence
     <<120>>, <<27, 79>>, <<27, 91>>, <<27, 91, 90>>,
     \* keys typed ahead: a letter and down, Enter and down, ESC O and down
     <<120, 27, 91, 66>>, <<13, 27, 91, 66>>, <<27, 79, 66>>,
     <<>>}

\* what the read of the second byte of a Windows sequence can deliver when
\* the prefix came alone
PrefixChunks == {<<72>>, <<80>>, <<77>>, <<13>>, <<>>}

totalPages(n) == (n + pageSize - 1) \div pageSize

\* pageLen of the down key: the number of entries on the page
pageLen(n, pg) ==
    IF pg * pageSize + pageSize > n THEN n - pg * pageSize ELSE pageSize

keyUp(cur) ==
    IF cur.selected > 0 THEN [cur EXCEPT !.selected = @ - 1] ELSE cur

selectDown(n, cur) ==
    IF cur.selected < n - 1 THEN [cur EXCEPT !.selected = @ + 1] ELSE cur

landDown(n, cur) ==
    IF cur.selected < pageLen(n, cur.page) - 1
    THEN [cur EXCEPT !.selected = @ + 1] ELSE cur

landLeft(n, cur) ==
    IF cur.page > 0 THEN [page |-> cur.page - 1, selected |-> 0] ELSE cur

\* a variant that keeps the row when the page is turned
landRightKeepRow(n, cur) ==
    IF cur.page < totalPages(n) - 1 THEN [cur EXCEPT !.page = @ + 1] ELSE cur

landRight(n, cur) ==
    IF cur.page < totalPages(n) - 1
    THEN [page |-> cur.page + 1, selected |-> 0] ELSE cur

\* how one pass of the loop ends: it goes on with the cursor and the unread
\* bytes, the function returns, or Enter asks for the entry of the cursor
GoOn(cur, rest) == [out |-> "continue", cur |-> cur, rest |-> rest]
Quit(cur) == [out |-> "return", cur |-> cur, rest |-> <<>>]
Enter(cur, rest) == [out |-> "enter", cur |-> cur, rest |-> rest]

\* one pass of the loop of interactiveSelect over the bytes buf of the
\* reader, filled from chunk1 (and chunk2) when it is empty
selectPass(n, cur, buf, chunk1, chunk2) ==
    LET s1 == IF buf = <<>> THEN chunk1 ELSE buf
    IN IF s1 = <<>> THEN Quit(cur)
       ELSE
       LET b1 == Head(s1)
           r1 == Tail(s1)
       IN IF b1 = 0 \/ b1 = 224
          THEN LET s2 == IF r1 = <<>> THEN chunk2 ELSE r1
                   b2 == IF s2 = <<>> THEN 0 ELSE Head(s2)
                   r2 == IF s2 = <<>> THEN <<>> ELSE Tail(s2)
               IN CASE b2 = 72 -> GoOn(keyUp(cur), r2)
                    [] b2 = 80 -> GoOn(selectDown(n, cur), r2)
                    [] b2 = 13 -> Enter(cur, r2)
                    [] OTHER -> GoOn(cur, r2)
          ELSE IF b1 = 27
          THEN IF r1 = <<>> THEN Quit(cur)
               ELSE IF Head(r1) # 91 THEN GoOn(cur, Tail(r1))
               ELSE IF Tail(r1) = <<>> THEN GoOn(cur, <<>>)
               ELSE LET b3 == r1[2]
                        r3 == Tail(Tail(r1))
                    IN CASE b3 = 65 -> GoOn(keyUp(cur), r3)
                         [] b3 = 66 -> GoOn(selectDown(n, cur), r3)
                         [] OTHER -> GoOn(cur, r3)
          ELSE IF b1 = 13 \/ b1 = 10 THEN Enter(cur, r1)
          ELSE IF b1 = 3 THEN Quit(cur)
          ELSE GoOn(cur, r1)

\* one pass of the loop of interactiveLargeLand
landPass(n, cur, buf, chunk1, chunk2) ==
    LET s1 == IF buf = <<>> THEN chunk1 ELSE buf
    IN IF s1 = <<>> THEN Quit(cur)
       ELSE
       LET b1 == Head(s1)
           r1 == Tail(s1)
       IN IF b1 = 0 \/ b1 = 224
          THEN LET s2 == IF r1 = <<>> THEN chunk2 ELSE r1
                   b2 == IF s2 = <<>> THEN 0 ELSE Head(s2)
                   r2 == IF s2 = <<>> THEN <<>> ELSE Tail(s2)
               IN CASE b2 = 72 -> GoOn(keyUp(cur), r2)
                    [] b2 = 80 -> GoOn(landDown(n, cur), r2)
                    [] b2 = 75 -> GoOn(landLeft(n, cur), r2)
                    [] b2 = 77 -> GoOn(landRight(n, cur), r2)
                    [] OTHER -> GoOn(cur, r2)
          ELSE IF b1 = 27
          THEN IF r1 = <<>> THEN Quit(cur)
               ELSE IF Head(r1) # 91 THEN GoOn(cur, Tail(r1))
               ELSE IF Tail(r1) = <<>> THEN GoOn(cur, <<>>)
               ELSE LET b3 == r1[2]
                        r3 == Tail(Tail(r1))
                    IN CASE b3 = 65 -> GoOn(keyUp(cur), r3)
                         [] b3 = 66 -> GoOn(landDown(n, cur), r3)
                         [] b3 = 68 -> GoOn(landLeft(n, cur), r3)
                         [] b3 = 67 -> GoOn(landRight(n, cur), r3)
                         [] OTHER -> GoOn(cur, r3)
          ELSE IF b1 = 13 \/ b1 = 10
          THEN IF cur.page * pageSize + cur.selected < n THEN Enter(cur, r1)
               ELSE GoOn(cur, r1)
          ELSE IF b1 = 3 THEN Quit(cur)
          ELSE GoOn(cur, r1)

ListsInit ==
    /\ layerFiles = <<>>
    /\ zoningFeatures = <<>>
    /\ initErr = ""
    /\ zoningPc = "ready"
    /\ lookup = NoLookup
    /\ propertyData = <<>>
    /\ uvCall = UvIdle
    /\ propertyData2024 = <<>>
    /\ dsCall = DsIdle
    /\ ReadFileIdle
    /\ ExtrasIdle("ui")
    /\ UiIdle

\* a list is put on screen: nothing to show or no raw mode and the function
\* returns, else the cursor starts at the first entry of the first page
OpenList(kind) ==
    /\ uiPc = "idle"
    /\ \E n \in 0..MaxResults, rawFails \in BOOLEAN :
          /\ uiList' = [kind |-> kind, len |-> n]
          /\ uiPc' = IF n = 0 \/ rawFails THEN "returned" ELSE "loop"
    /\ page' = 0
    /\ selected' = 0
    /\ keyBuf' = <<>>
    /\ uiShown' = -1
    /\ UNCHANGED notUi

\* the end of a pass: Enter renders entry idx and waits for the user with a
\* new reader, so the unread bytes are dropped, and going back to raw mode
\* can fail; an index outside the list is a run-time panic
EndPass(r, idx) ==
    /\ page' = r.cur.page
    /\ selected' = r.cur.selected
    /\ IF r.out = "enter"
       THEN IF idx >= 0 /\ idx < uiList.len
            THEN /\ uiShown' = idx
                 /\ keyBuf' = <<>>
                 /\ \E rawFails \in BOOLEAN :
                       uiPc' = IF rawFails THEN "returned" ELSE "loop"
            ELSE /\ uiShown' = -1
                 /\ keyBuf' = <<>>
                 /\ uiPc' = "panic"
       ELSE /\ uiShown' = -1
            /\ keyBuf' = r.rest
            /\ uiPc' = IF r.out = "return" THEN "returned" ELSE "loop"
    /\ UNCHANGED <<uiList, notUi>>

InteractiveSelect == OpenList("select")

InteractiveLargeLand == OpenList("land")

\* one pass of the loop of interactiveSelect
SelectKey ==
    /\ uiPc = "loop"
    /\ uiList.kind = "select"
    /\ \E chunk1 \in KeyChunks, chunk2 \in PrefixChunks :
          LET r == selectPass(uiList.len, [page |-> page, selected |-> selected],
                              keyBuf, chunk1, chunk2)
          IN EndPass(r, r.cur.selected)

\* one pass of the loop of interactiveLargeLand
LandKey ==
    /\ uiPc = "loop"
    /\ uiList.kind = "land"
    /\ \E chunk1 \in KeyChunks, chunk2 \in PrefixChunks :
          LET r == landPass(uiList.len, [page |-> page, selected |-> selected],
                            keyBuf, chunk1, chunk2)
          IN EndPass(r, r.cur.page * pageSize + r.cur.selected)

\* the list function has returned to its caller
ListReturn ==
    /\ uiPc = "returned"
    /\ uiList' = [kind |-> "none", len |-> 0]
    /\ page' = 0
    /\ selected' = 0
    /\ keyBuf' = <<>>
    /\ uiPc' = "idle"
    /\ uiShown' = -1
    /\ UNCHANGED notUi

ListsNext ==
    InteractiveSelect \/ InteractiveLargeLand \/ SelectKey \/ LandKey \/ ListReturn

SpecLists == ListsInit /\ [][ListsNext]_vars

\* C30: while a list is on screen the selection refers to an existing
\* entry: in interactiveLargeLand 0 <= page < totalPages, 0 <= selected and
\* page*20 + selected < len(results); in interactiveSelect
\* 0 <= selected < len(addresses); Enter never indexes outside the list.
C30_SelectionRefersToAnEntry ==
    /\ uiPc # "panic"
    /\ (uiPc = "loop" /\ uiList.kind = "land") =>
          /\ 0 <= page /\ page < totalPages(uiList.len)
          /\ 0 <= selected
          /\ page * pageSize + selected < uiList.len
    /\ (uiPc = "loop" /\ uiList.kind = "select") =>
          /\ 0 <= selected /\ selected < uiList.len
    /\ uiShown # -1 => (0 <= uiShown /\ uiShown < uiList.len)

\* Enter has rendered the last entry of the longest list of large parcels,
\* the only entry of its last page, and the list is back on screen
C30_Witness ==
    /\ uiPc = "loop"
    /\ uiList = [kind |-> "land", len |-> MaxResults]
    /\ page = totalPages(MaxResults) - 1
    /\ page > 0
    /\ uiShown = MaxResults - 1

====
